---- MODULE Spec2Model ----
(***************************************************************************)
(* Model of the training driver of graphneuralpdesolver:                   *)
(*   - main()  (src/graphneuralpdesolver/train.py, lines 687-832): the     *)
(*     curriculum schedule that splits FLAGS.epochs over the direct        *)
(*     sub-phases d = 1..direct_steps and the unroll sub-phases            *)
(*     u = 1..unroll_steps;                                                *)
(*   - train() (same file, lines 107-677): one sub-phase: its assertions,  *)
(*     the lead times, the noise/gradient split of the unrolling steps     *)
(*     and the per-epoch loss accumulation over the dataset's batches.     *)
(* Two specifications share the module: Spec (main) and SpecTrain (train). *)
(***************************************************************************)
EXTENDS Integers, Sequences, FiniteSets, TLC

\* ------------------------------------------------------------------ bounds

MaxEpochs == 9       \* FLAGS.epochs ranges over 0..MaxEpochs
MaxDirectSteps == 3  \* FLAGS.direct_steps ranges over 1..MaxDirectSteps
MaxUnrollSteps == 4  \* FLAGS.unroll_steps ranges over 0..MaxUnrollSteps
MaxJumpSteps == 2    \* FLAGS.jump_steps ranges over 1..MaxJumpSteps
MaxTrainEpochs == 1  \* train(): epochs ranges over 0..MaxTrainEpochs
MaxLenTraj == 11     \* train(): len_traj is MaxLenTraj - 1 or MaxLenTraj
MaxSamples == 2      \* dataset.nums['train'] ranges over 0..MaxSamples
MaxValid == 2        \* dataset.nums['valid'] ranges over 1..MaxValid
MaxBatchSize == 2    \* FLAGS.batch_size ranges over 1..MaxBatchSize
MaxDevices == 2      \* NUM_DEVICES ranges over 1..MaxDevices
MaxLoss == 1         \* the loss of a batch ranges over 0..MaxLoss
MaxTrainDirect == 2  \* train(): direct_steps ranges over 1..MaxTrainDirect
MaxTrainUnroll == 2  \* train(): unroll_steps ranges over 0..MaxTrainUnroll
MaxDim == 2          \* normalize(): the arrays have 1..MaxDim entries
MaxLenDataset == 2       \* samples in the file of a dataset
MaxResidualSteps == 2    \* residual_steps of Dataset.compute_stats
MaxInput == 3            \* predictor: an input window is one of 0..MaxInput
MaxNumSteps == 3         \* predictor: num_steps, num_jumps in 0..MaxNumSteps
MaxModeSamples == 3      \* Dataset.batches: nums[mode] in 0..MaxModeSamples
MaxNumTimes == 3         \* downsampling: (len_traj - 1) / jump_steps
MaxSpecDim == 2          \* downsampling: the specs of a sample have
                         \*   1..MaxSpecDim entries

\* ------------------------------------------------------- program constants

\* Dataset(..., cutoff=17, ...): the length of the trajectories main() trains on
Cutoff == 17
\* flags.DEFINE_float(name='lr_decay', default=None): the unset flag
None == -1
\* the defaults of FLAGS.batch_size and FLAGS.n_train
DefaultBatchSize == 4
DefaultNTrain == 2048

\* ---------------------------------------------------------------- helpers

Min(a, b) == IF a <= b THEN a ELSE b

RECURSIVE SumSeq(_)
SumSeq(s) == IF s = <<>> THEN 0 ELSE s[1] + SumSeq(Tail(s))

\* -------------------------------------------------- IEEE-754 binary64 values
\* Python evaluates  FLAGS.epochs // (1 + .2 * FLAGS.unroll_steps)  in
\* binary64.  The binary64 values met here (0, or 2^-3 and above) are integer
\* multiples of 2^-55 with at most 53 significant bits.  Such a value is
\* modelled by that multiple, written in limbs of LimbBits bits, least
\* significant first (TLC's integers are too narrow to hold it as a number).

FracBits == 55       \* values are multiples of 2^-FracBits
Precision == 53      \* significant bits of a binary64 mantissa
LimbBits == 11       \* bits per limb of the multiple
Base == 2^LimbBits

Limb(a, k) == IF k >= 1 /\ k <= Len(a) THEN a[k] ELSE 0

\* bit i (from 0) of a
BitAt(a, i) == (Limb(a, (i \div LimbBits) + 1) \div (2^(i % LimbBits))) % 2

\* number of bits of a up to its highest 1 bit (0 for zero)
BitLen(a) ==
  LET ones == {i \in 0..(LimbBits * Len(a) - 1) : BitAt(a, i) = 1}
  IN IF ones = {} THEN 0
     ELSE 1 + CHOOSE i \in ones : \A j \in ones : j <= i

\* 2^n
Pow2Limbs(n) ==
  [k \in 1..((n \div LimbBits) + 1) |->
     IF k = (n \div LimbBits) + 1 THEN 2^(n % LimbBits) ELSE 0]

\* a + b + carry
RECURSIVE LimbsAddC(_, _, _)
LimbsAddC(a, b, c) ==
  IF a = <<>> /\ b = <<>> THEN (IF c = 0 THEN <<>> ELSE <<c>>)
  ELSE LET t == Limb(a, 1) + Limb(b, 1) + c
           ta == IF a = <<>> THEN <<>> ELSE Tail(a)
           tb == IF b = <<>> THEN <<>> ELSE Tail(b)
       IN <<t % Base>> \o LimbsAddC(ta, tb, t \div Base)

LimbsAdd(a, b) == LimbsAddC(a, b, 0)

\* a * n + carry for a small natural n
RECURSIVE LimbsMulNatC(_, _, _)
LimbsMulNatC(a, n, c) ==
  IF a = <<>> THEN (IF c = 0 THEN <<>> ELSE <<c % Base>> \o LimbsMulNatC(a, n, c \div Base))
  ELSE LET t == a[1] * n + c
       IN <<t % Base>> \o LimbsMulNatC(Tail(a), n, t \div Base)

LimbsMulNat(a, n) == LimbsMulNatC(a, n, 0)

\* a <= b, comparing from the most significant limb down
RECURSIVE LimbsLeqFrom(_, _, _)
LimbsLeqFrom(a, b, k) ==
  IF k = 0 THEN TRUE
  ELSE IF Limb(a, k) < Limb(b, k) THEN TRUE
  ELSE IF Limb(a, k) > Limb(b, k) THEN FALSE
  ELSE LimbsLeqFrom(a, b, k - 1)

LimbsLeq(a, b) ==
  LimbsLeqFrom(a, b, IF Len(a) >= Len(b) THEN Len(a) ELSE Len(b))

\* a with its s lowest bits cleared
ClearLow(a, s) ==
  [k \in 1..Len(a) |->
     LET low == s - LimbBits * (k - 1)
     IN IF low <= 0 THEN a[k]
        ELSE IF low >= LimbBits THEN 0
        ELSE a[k] - (a[k] % (2^low))]

\* round-to-nearest, ties-to-even, to Precision significant bits (the scale
\* is kept: the dropped low bits become zeros)
RoundToNearestEven(a) ==
  LET s == BitLen(a) - Precision
  IN IF s <= 0 THEN a
     ELSE LET half == BitAt(a, s - 1)
              sticky == \E i \in 0..(s - 2) : BitAt(a, i) = 1
              up == half = 1 /\ (sticky \/ BitAt(a, s) = 1)
          IN IF up THEN LimbsAdd(ClearLow(a, s), Pow2Limbs(s))
             ELSE ClearLow(a, s)

\* the limbs, most significant first, of floor(r * Base^k / den) for r < den,
\* by long division, with the remainder
RECURSIVE DivLimbs(_, _, _)
DivLimbs(r, den, k) ==
  IF k = 0 THEN [q |-> <<>>, r |-> r]
  ELSE LET rest == DivLimbs((r * Base) % den, den, k - 1)
       IN [q |-> <<(r * Base) \div den>> \o rest.q, r |-> rest.r]

Reverse(a) == [i \in 1..Len(a) |-> a[Len(a) + 1 - i]]

\* the literal .2: the binary64 nearest to 2/10.  2/10 is taken to one limb
\* more than the scale; a non-zero remainder is kept as a sticky lowest bit;
\* after rounding the extra limb is zero and is dropped.
FloatPointTwo ==
  LET n == (FracBits \div LimbBits) + 1
      d == DivLimbs(2, 10, n)
      floor == Reverse(d.q)
      exact == IF d.r = 0 \/ floor[1] % 2 = 1 THEN floor
               ELSE [floor EXCEPT ![1] = @ + 1]
      scaled == LimbsMulNat(exact, 2^(FracBits % LimbBits))
  IN Tail(RoundToNearestEven(scaled))

\* the integer n as a binary64 (exact for the small n of the model)
FloatOfInt(n) == LimbsMulNat(Pow2Limbs(FracBits), n)

\* binary64 product of a float and a small integer, and binary64 sum
FloatMulInt(a, n) == RoundToNearestEven(LimbsMulNat(a, n))
FloatAdd(a, b) == RoundToNearestEven(LimbsAdd(a, b))

\* int(e // y) for an int e >= 0 and a float y >= 1.  CPython's float
\* floor division takes mod = fmod(e, y), which is exact, and returns
\* (e - mod) / y rounded to the nearest integer: the largest integer q with
\* q * y <= e for the binary64 value y.
RECURSIVE FloorDivFrom(_, _, _)
FloorDivFrom(e, y, q) ==
  IF q = 0 \/ LimbsLeq(LimbsMulNat(y, q), FloatOfInt(e)) THEN q
  ELSE FloorDivFrom(e, y, q - 1)

IntFloorDivFloat(e, y) == FloorDivFrom(e, y, e)

\* ------------------------------------------------------------------ state

VARIABLES
  pc,              \* main(): the position in the function
  FLAGS,           \* main(): the command-line flags
  epochs_u00,      \* main(): epochs of the direct-only phase
  epochs_uxx,      \* main(): epochs of every unroll sub-phase but the last
  epochs_uff,      \* main(): epochs of the last unroll sub-phase
  epochs_u00_dxx,  \* main(): epochs of every direct sub-phase but the last
  epochs_u00_dff,  \* main(): epochs of the last direct sub-phase
  _d,              \* main(): loop variable of the direct phase
  _u,              \* main(): loop variable of the unroll phase
  epochs_trained,  \* main(): epochs of the sub-phases that have returned
  calls,           \* the train() invocations main() has made, in order
  saved,           \* main(): the steps that the train() invocations passed
                   \*   to checkpoint_manager.save, each with its invocation
  main_state,      \* main(): state, the TrainState (params, opt_state, step
                   \*   and the optimizer tx)
  tpc,             \* train(): the position in the function
  args,            \* train(): jump_steps, direct_steps, unroll_steps, epochs
  dataset,         \* train(): the dataset (len_traj, nums)
  NUM_DEVICES,     \* jax.local_device_count()
  locals,          \* train(): the constants of lines 118-143
  state,           \* train(): the TrainState (step, and whether step is
                   \*   still the Python int of TrainState.create)
  epoch,           \* train(): loop variable of the epochs
  batches,         \* train_one_epoch(): the batches not yet consumed
  loss_epoch,      \* train_one_epoch(): loss_epoch * num_samples_trn
  noise_steps,     \* _get_loss_and_grads(): the value drawn when
                   \*   _train_one_batch was last traced
  traced,          \* the argument signatures _train_one_batch is compiled for
  drawn_in,        \* the update during which noise_steps was drawn
  num_updates,     \* executions of _train_one_batch in this train()
  batch_log,       \* what each batch of the current epoch was trained with
  num_fetched,     \* batches that Dataset.batches has yielded to train()
  num_evaluated,   \* batches that evaluate() has applied the model to
  ndt_evaluated,   \* the ndt values of the last _evaluate_direct_prediction
  nrm,             \* a call of normalize or unnormalize: its arguments, its
                   \*   result and what was done with it
  ds,              \* a Dataset object: its splits, its statistics and the
                   \*   samples its last operation read
  onz,             \* the OperatorNormalizer train() builds from the
                   \*   statistics of the dataset, and its last application
  prd,             \* a call of the AutoregressivePredictor: its arguments
                   \*   and what unroll and jump returned
  down,            \* the downsampling of a batch: the batch and the arrays
                   \*   made of it
  bat,             \* a call of Dataset.batches: its arguments and the
                   \*   batches it has yielded
  slc,             \* the input/target pairs of a batch on a device: the
                   \*   constants of train() and the arrays sliced from trajs
  rerun            \* train_one_epoch() run twice from one state: the state
                   \*   it starts from and what the first run returned

mainVars == <<pc, FLAGS, epochs_u00, epochs_uxx, epochs_uff, epochs_u00_dxx,
              epochs_u00_dff, _d, _u, epochs_trained, calls, main_state,
              saved>>

trainVars == <<tpc, args, dataset, NUM_DEVICES, locals, state, epoch, batches,
               loss_epoch, noise_steps, traced, drawn_in, num_updates,
               batch_log, num_fetched, num_evaluated, ndt_evaluated>>

dsVars == <<ds, onz>>

fnVars == <<nrm, dsVars, prd, down, slc, bat>>

pureVars == <<rerun, fnVars>>

vars == <<mainVars, trainVars, pureVars>>

\* a local variable that has not been assigned yet
Unbound == -1

\* ------------------------------------------------------------------ main()

\* the values of the flag lr_decay: unset, 0.0 and a positive value (tenths)
LrDecays == {None, 0, 5}

FlagSets ==
  [epochs : 0..MaxEpochs,
   direct_steps : 1..MaxDirectSteps,
   unroll_steps : 0..MaxUnrollSteps,
   jump_steps : 1..MaxJumpSteps,
   lr_decay : LrDecays]

\* mutant: the reserve computed for one unroll step too many
EpochsU00_OneMoreUnroll(epochs, unroll_steps) ==
  IntFloorDivFloat(epochs,
    FloatAdd(FloatOfInt(1), FloatMulInt(FloatPointTwo, unroll_steps + 1)))

\* int(FLAGS.epochs // (1 + .2 * FLAGS.unroll_steps))
EpochsU00(epochs, unroll_steps) ==
  IntFloorDivFloat(epochs,
    FloatAdd(FloatOfInt(1), FloatMulInt(FloatPointTwo, unroll_steps)))

\* mutant: the unroll phase splits the whole budget, not what is left of it
EpochsUxx_OfTotal(epochs, u00, unroll_steps) == epochs \div unroll_steps

\* int((FLAGS.epochs - epochs_u00) // FLAGS.unroll_steps)
EpochsUxx(epochs, u00, unroll_steps) == (epochs - u00) \div unroll_steps

\* mutant: the remainder of the unroll phase is dropped
EpochsUff_NoRemainder(epochs, u00, unroll_steps) ==
  (epochs - u00) \div unroll_steps

\* epochs_uxx + (FLAGS.epochs - epochs_u00) % FLAGS.unroll_steps
EpochsUff(epochs, u00, unroll_steps) ==
  EpochsUxx(epochs, u00, unroll_steps) + ((epochs - u00) % unroll_steps)

\* epochs_u00 // FLAGS.direct_steps
EpochsU00Dxx(u00, direct_steps) == u00 \div direct_steps

\* epochs_u00_dxx + epochs_u00 % FLAGS.direct_steps
EpochsU00Dff(u00, direct_steps) ==
  EpochsU00Dxx(u00, direct_steps) + (u00 % direct_steps)

\* mutant: the remainder goes to the first direct sub-phase
DirectEpochs_RemainderFirst(d) ==
  IF d = 1 THEN epochs_u00_dff ELSE epochs_u00_dxx

\* epochs of direct sub-phase d and of unroll sub-phase u
DirectEpochs(d) ==
  IF d = FLAGS.direct_steps THEN epochs_u00_dff ELSE epochs_u00_dxx
UnrollEpochs(u) ==
  IF u = FLAGS.unroll_steps THEN epochs_uff ELSE epochs_uxx

\* lines 123-129 and 141-142 of train(): the constants it sets, for the
\* arguments, FLAGS.batch_size, NUM_DEVICES and the dataset's len_traj and
\* nums['train']
UnrollOffset(unroll_steps, direct_steps) == unroll_steps * direct_steps
NumTimes(len_traj, jump_steps) == (len_traj - 1) \div jump_steps
NumLeadTimes(num_times, unroll_offset, direct_steps) ==
  num_times - unroll_offset - direct_steps

\* the four assertions of lines 124-142: whether train() goes on
TrainAsserts(jump_steps, direct_steps, unroll_steps, len_traj,
             num_samples_trn, batch_size, num_devices) ==
  /\ num_samples_trn % batch_size = 0
  /\ (jump_steps * batch_size) % num_devices = 0
  /\ (len_traj - 1) % jump_steps = 0
  /\ NumLeadTimes(NumTimes(len_traj, jump_steps),
                  UnrollOffset(unroll_steps, direct_steps), direct_steps) > 0

\* train() as main() calls it: on the dataset main() builds (trajectories of
\* Cutoff steps, the default n_train and batch_size)
TrainAccepts(jump_steps, direct_steps, unroll_steps) ==
  TrainAsserts(jump_steps, direct_steps, unroll_steps, Cutoff,
               DefaultNTrain, DefaultBatchSize, NUM_DEVICES)

\* TrainState.create(params = params, tx = tx): the optimizer state is
\* tx.init(params) and step is 0.  params is the list of the train()
\* invocations that have updated the parameters, opt_state the list of
\* those that have updated the optimizer state.
CreateState(params, tx) ==
  [params |-> params, opt_state |-> <<>>, step |-> 0, tx |-> tx]

\* lines 790-796: the optimizer of the direct phase; the learning rate is
\* FLAGS.lr, with a cosine decay to FLAGS.lr_decay * FLAGS.lr if lr_decay is
\* set and not zero.  Learning rates are in tenths of FLAGS.lr.
DirectTx(lr_decay) ==
  IF lr_decay # None /\ lr_decay # 0
  THEN [learning_rate |-> [init_value |-> 10, alpha |-> lr_decay]]
  ELSE [learning_rate |-> 10]

\* lines 815-816: the optimizer of the unroll phase, with the learning rate
\* FLAGS.lr * FLAGS.lr_decay (lr_decay is in tenths)
UnrollTx(lr_decay) == [learning_rate |-> lr_decay]

\* mutant: the unroll phase goes on with the optimizer state it is given
UnrollState_KeepOptState(st, lr_decay) == [st EXCEPT !.tx = UnrollTx(lr_decay)]

\* line 817: the state of the unroll phase
UnrollState(st, lr_decay) == CreateState(st.params, UnrollTx(lr_decay))

\* the state the i-th train() invocation returns when it is given st: each
\* of its epochs makes an update per batch of the training split (lines
\* 606-616, 677)
Trained(st, i, epochs) ==
  IF epochs > 0
  THEN [st EXCEPT !.params = Append(@, i),
                  !.opt_state = Append(@, i),
                  !.step = @ + epochs * (DefaultNTrain \div DefaultBatchSize)]
  ELSE st

\* mutant: the unroll sub-phases train at direct_steps = 1
UnrollCall_DirectOne(u) ==
  [direct_steps |-> 1, unroll_steps |-> u,
   epochs |-> IF u = FLAGS.unroll_steps THEN epochs_uff ELSE epochs_uxx,
   epochs_before |-> epochs_trained, state |-> main_state]

\* the arguments of the train() invocation of direct sub-phase d (lines
\* 801-811) and of unroll sub-phase u (lines 821-831)
DirectCall(d) ==
  [direct_steps |-> d, unroll_steps |-> 0, epochs |-> DirectEpochs(d),
   epochs_before |-> epochs_trained, state |-> main_state]
UnrollCall(u) ==
  [direct_steps |-> FLAGS.direct_steps, unroll_steps |-> u,
   epochs |-> UnrollEpochs(u), epochs_before |-> epochs_trained,
   state |-> main_state]

\* mutant: the step is the epoch of the invocation
CheckpointStep_EpochOnly(epochs_before, _epoch) == _epoch

\* line 666: step = epochs_before + epoch
CheckpointStep(epochs_before, _epoch) == epochs_before + _epoch

\* lines 606-675: the steps that invocation i of train() saves, one per
\* epoch of range(1, epochs + 1)
SavedSteps(i, epochs_before, epochs) ==
  [_epoch \in 1..epochs |->
     [step |-> CheckpointStep(epochs_before, _epoch), call |-> i]]

\* train() is not being stepped through
TrainIdle ==
  /\ tpc = "idle"
  /\ args = <<>>
  /\ dataset = <<>>
  /\ NUM_DEVICES = 1
  /\ locals = <<>>
  /\ state = <<>>
  /\ epoch = Unbound
  /\ batches = <<>>
  /\ loss_epoch = Unbound
  /\ noise_steps = Unbound
  /\ traced = {}
  /\ drawn_in = Unbound
  /\ num_updates = 0
  /\ batch_log = <<>>
  /\ num_fetched = 0
  /\ num_evaluated = 0
  /\ ndt_evaluated = <<>>

\* no function is being run on its own
DsIdle ==
  /\ ds = <<>>
  /\ onz = <<>>

PrdIdle ==
  /\ prd = <<>>

DownIdle ==
  /\ down = <<>>

SlcIdle ==
  /\ slc = <<>>

BatIdle ==
  /\ bat = <<>>

FnIdle ==
  /\ nrm = <<>>
  /\ DsIdle
  /\ PrdIdle
  /\ DownIdle
  /\ SlcIdle
  /\ BatIdle

PureIdle ==
  /\ rerun = <<>>
  /\ FnIdle

Init ==
  /\ pc = "split"
  /\ FLAGS \in FlagSets
  /\ epochs_u00 = Unbound
  /\ epochs_uxx = Unbound
  /\ epochs_uff = Unbound
  /\ epochs_u00_dxx = Unbound
  /\ epochs_u00_dff = Unbound
  /\ _d = Unbound
  /\ _u = Unbound
  /\ epochs_trained = Unbound
  /\ calls = <<>>
  /\ main_state = Unbound
  /\ saved = <<>>
  /\ TrainIdle
  /\ PureIdle

\* lines 759-797: split the epochs, create the first optimizer
SplitEpochs ==
  /\ pc = "split"
  /\ \E u00 \in {EpochsU00(FLAGS.epochs, FLAGS.unroll_steps)} :
        /\ epochs_u00' = u00
        /\ IF FLAGS.unroll_steps # 0
           THEN /\ epochs_uxx' = EpochsUxx(FLAGS.epochs, u00, FLAGS.unroll_steps)
                /\ epochs_uff' = EpochsUff(FLAGS.epochs, u00, FLAGS.unroll_steps)
           ELSE UNCHANGED <<epochs_uxx, epochs_uff>>
        /\ epochs_u00_dxx' = EpochsU00Dxx(u00, FLAGS.direct_steps)
        /\ epochs_u00_dff' = EpochsU00Dff(u00, FLAGS.direct_steps)
  /\ epochs_trained' = 0
  /\ main_state' = CreateState(<<>>, DirectTx(FLAGS.lr_decay))
  /\ _d' = 1
  /\ pc' = "direct"
  /\ UNCHANGED <<FLAGS, _u, calls, saved>>
  /\ UNCHANGED <<trainVars, pureVars>>

\* lines 798-812: one iteration of the direct phase
TrainDirect ==
  /\ pc = "direct"
  /\ _d <= FLAGS.direct_steps
  /\ LET epochs == DirectEpochs(_d)
     IN /\ calls' = Append(calls, DirectCall(_d))
        /\ IF TrainAccepts(FLAGS.jump_steps, _d, 0)
           THEN /\ main_state' = Trained(main_state, Len(calls) + 1, epochs)
                /\ saved' = saved \o SavedSteps(Len(calls) + 1,
                                                epochs_trained, epochs)
                /\ epochs_trained' = epochs_trained + epochs
                /\ _d' = _d + 1
                /\ pc' = pc
           ELSE /\ pc' = "failed"
                /\ UNCHANGED <<main_state, saved, epochs_trained, _d>>
  /\ UNCHANGED <<FLAGS, epochs_u00, epochs_uxx, epochs_uff, epochs_u00_dxx,
                 epochs_u00_dff, _u>>
  /\ UNCHANGED <<trainVars, pureVars>>

\* lines 814-817: after the direct phase, the optimizer of the unroll phase;
\* FLAGS.lr * FLAGS.lr_decay raises TypeError when lr_decay is None
ResetOptimizer ==
  /\ pc = "direct"
  /\ _d > FLAGS.direct_steps
  /\ IF FLAGS.lr_decay = None
     THEN pc' = "failed" /\ UNCHANGED <<_u, main_state>>
     ELSE /\ main_state' = UnrollState(main_state, FLAGS.lr_decay)
          /\ pc' = "unroll"
          /\ _u' = 1
  /\ UNCHANGED <<FLAGS, epochs_u00, epochs_uxx, epochs_uff, epochs_u00_dxx,
                 epochs_u00_dff, _d, epochs_trained, calls, saved>>
  /\ UNCHANGED <<trainVars, pureVars>>

\* lines 818-832: one iteration of the unroll phase
TrainUnroll ==
  /\ pc = "unroll"
  /\ _u <= FLAGS.unroll_steps
  /\ LET epochs == UnrollEpochs(_u)
     IN /\ calls' = Append(calls, UnrollCall(_u))
        /\ IF TrainAccepts(FLAGS.jump_steps, FLAGS.direct_steps, _u)
           THEN /\ main_state' = Trained(main_state, Len(calls) + 1, epochs)
                /\ saved' = saved \o SavedSteps(Len(calls) + 1,
                                                epochs_trained, epochs)
                /\ epochs_trained' = epochs_trained + epochs
                /\ _u' = _u + 1
                /\ pc' = pc
           ELSE /\ pc' = "failed"
                /\ UNCHANGED <<main_state, saved, epochs_trained, _u>>
  /\ UNCHANGED <<FLAGS, epochs_u00, epochs_uxx, epochs_uff, epochs_u00_dxx,
                 epochs_u00_dff, _d>>
  /\ UNCHANGED <<trainVars, pureVars>>

\* main() returns
Return ==
  /\ pc = "unroll"
  /\ _u > FLAGS.unroll_steps
  /\ pc' = "done"
  /\ UNCHANGED <<FLAGS, epochs_u00, epochs_uxx, epochs_uff, epochs_u00_dxx,
                 epochs_u00_dff, _d, _u, epochs_trained, calls, main_state,
                 saved>>
  /\ UNCHANGED <<trainVars, pureVars>>

Next == SplitEpochs \/ TrainDirect \/ ResetOptimizer \/ TrainUnroll \/ Return

Spec == Init /\ [][Next]_vars

\* ----------------------------------------------------------------- train()

\* the permutations of 0..n-1 (jax.random.permutation)
Permutations0(n) ==
  {p \in [1..n -> 0..(n - 1)] : \A i, j \in 1..n : p[i] = p[j] => i = j}

\* jnp.arange(n)
Arange(n) == [i \in 1..n |-> i - 1]

\* Dataset.batches: the two assertions, and the batches of local indices it
\* yields for the (shuffled or not) indices idx of a split of n samples
BatchesAsserts(n, batch_size) == batch_size > 0 /\ batch_size <= n

Batches_NoRemainder(n, batch_size, idx) ==
  LET len_dividable == n - (n % batch_size)
  IN  [k \in 1..(len_dividable \div batch_size) |->
         SubSeq(idx, (k - 1) * batch_size + 1, k * batch_size)]

Batches(n, batch_size, idx) ==
  LET len_dividable == n - (n % batch_size)
      whole == [k \in 1..(len_dividable \div batch_size) |->
                  SubSeq(idx, (k - 1) * batch_size + 1, k * batch_size)]
  IN IF n % batch_size # 0
     THEN Append(whole, SubSeq(idx, len_dividable + 1, n))
     ELSE whole

\* evaluate() on a split of n samples, read without a key: Dataset.batches
\* asserts, and the reshape of line 499 needs FLAGS.batch_size trajectories
\* in every batch; whether evaluate() returns
EvaluateReturns(n, batch_size) ==
  /\ BatchesAsserts(n, batch_size)
  /\ \A k \in 1..Len(Batches(n, batch_size, Arange(n))) :
       Len(Batches(n, batch_size, Arange(n))[k]) = batch_size

\* the batches evaluate() applies the model to before it returns or fails:
\* those before the first batch that is not of FLAGS.batch_size trajectories
EvaluatedBy(n, batch_size) ==
  IF BatchesAsserts(n, batch_size)
  THEN LET bs == Batches(n, batch_size, Arange(n))
       IN Cardinality({k \in 1..Len(bs) :
            \A j \in 1..k : Len(bs[j]) = batch_size})
  ELSE 0

\* the batches Dataset.batches yields to evaluate(): the evaluated ones, and
\* the one evaluate() fails on
FetchedBy(n, batch_size) ==
  IF BatchesAsserts(n, batch_size)
  THEN IF EvaluateReturns(n, batch_size)
       THEN EvaluatedBy(n, batch_size)
       ELSE EvaluatedBy(n, batch_size) + 1
  ELSE 0

\* evaluate() on the training split and then, if that returns, on the
\* validation split: whether both return, and the batches fetched and
\* evaluated on the way
EvaluateBoth(n_train, n_valid, batch_size) ==
  LET trn == EvaluateReturns(n_train, batch_size)
  IN [returns |-> trn /\ EvaluateReturns(n_valid, batch_size),
      fetched |-> FetchedBy(n_train, batch_size)
                  + (IF trn THEN FetchedBy(n_valid, batch_size) ELSE 0),
      evaluated |-> EvaluatedBy(n_train, batch_size)
                    + (IF trn THEN EvaluatedBy(n_valid, batch_size) ELSE 0)]

\* jnp.arange(unroll_offset, num_times - direct_steps)
LeadTimes_ToEnd(unroll_offset, num_times, direct_steps) ==
  unroll_offset..(num_times - 1)

LeadTimes(unroll_offset, num_times, direct_steps) ==
  unroll_offset..(num_times - direct_steps - 1)

\* np.random.choice(unroll_steps + 1): a value of arange(unroll_steps + 1)
NoiseStepsChoices(unroll_steps) == 0..unroll_steps

\* mutant: the whole unrolling is done again with gradients
GradsSteps_All(unroll_steps, noise) == unroll_steps

\* grads_steps = unroll_steps - noise_steps
GradsSteps(unroll_steps, noise) == unroll_steps - noise

\* mutant: every batch weighs one sample
BatchWeight_One(batch_size, num_samples_trn) ==
  [num |-> 1, den |-> num_samples_trn]

\* line 392: the weight FLAGS.batch_size / num_samples_trn of a batch's loss
BatchWeight(batch_size, num_samples_trn) ==
  [num |-> batch_size, den |-> num_samples_trn]

\* mutant: the horizons start at zero
NdtBatch_FromZero(jump_steps, direct_steps) ==
  [i \in 1..direct_steps |-> jump_steps * (i - 1)]

\* line 304: ndt_batch = jump_steps * (1 + jnp.arange(direct_steps)); the
\* i-th entry (from 1) is that of arange's value i - 1
NdtBatch(jump_steps, direct_steps) ==
  [i \in 1..direct_steps |-> jump_steps * (1 + (i - 1))]

\* lines 282-286, 305, 320: u_tgt_batch[i] of the lead time lt is entry i of
\* the slice of direct_steps entries that starts at lt + 1 (i from 1)
UTgtIndex(lt, i) == (lt + 1) + (i - 1)

\* lines 323-328: the loss and the gradients of a direct step are added
\* after division by direct_steps
DirectStepWeight(direct_steps) == [num |-> 1, den |-> direct_steps]

\* lines 245-250: those of a chunk after division by num_lead_times
LeadTimeWeight(num_lead_times) == [num |-> 1, den |-> num_lead_times]

\* lines 447-458: the ndt values that jax.lax.scan passes to
\* get_direct_prediction: the carry starts at init = jump_steps and each of
\* the length = direct_steps calls returns ndt + jump_steps
RECURSIVE ScanNdt(_, _, _)
ScanNdt(ndt, jump_steps, length) ==
  IF length = 0
  THEN <<>>
  ELSE <<ndt>> \o ScanNdt(ndt + jump_steps, jump_steps, length - 1)

\* how often the operation op occurs in ops
Count(ops, op) == Cardinality({i \in 1..Len(ops) : ops[i] = op})

\* mutant: every device applies its own gradients, then they are averaged
TrainOneBatchOps_ApplyFirst ==
  <<"loss_and_grads", "apply_gradients", "pmean_grads", "pmean_loss">>

\* lines 334-346: what _train_one_batch does with the parameters, in order:
\* the loss and its gradients (reads), their means over the devices, and
\* state.apply_gradients with the mean gradients (the write)
TrainOneBatchOps ==
  <<"loss_and_grads", "pmean_grads", "pmean_loss", "apply_gradients">>

\* mutant: the loss of the batch replaces the running total
AccumulateLoss_Assign(total, loss, weight) == loss * weight.num

\* line 392: loss_epoch += loss * FLAGS.batch_size / num_samples_trn, as a
\* multiple of 1 / num_samples_trn
AccumulateLoss(total, loss, weight) == total + loss * weight.num

\* the TrainState train() is given: fresh from TrainState.create (step is the
\* Python int 0) or returned by an earlier train() (step is an array)
IncomingStates ==
  {[step |-> 0, py_int |-> TRUE], [step |-> 1, py_int |-> FALSE]}

MainIdle ==
  /\ pc = "train"
  /\ epochs_u00 = Unbound
  /\ epochs_uxx = Unbound
  /\ epochs_uff = Unbound
  /\ epochs_u00_dxx = Unbound
  /\ epochs_u00_dff = Unbound
  /\ _d = Unbound
  /\ _u = Unbound
  /\ epochs_trained = 0
  /\ calls = <<>>
  /\ main_state = Unbound
  /\ saved = <<>>

\* train() is entered
EnterTrain ==
  /\ MainIdle
  /\ FLAGS \in [batch_size : 1..MaxBatchSize]
  /\ tpc = "enter"
  /\ args \in [jump_steps : 1..MaxJumpSteps,
               direct_steps : 1..MaxTrainDirect,
               unroll_steps : 0..MaxTrainUnroll,
               epochs : 0..MaxTrainEpochs]
  /\ dataset \in [len_traj : (MaxLenTraj - 1)..MaxLenTraj,
                  nums : [train : 0..MaxSamples, valid : 1..MaxValid]]
  /\ NUM_DEVICES \in 1..MaxDevices
  /\ locals = <<>>
  /\ state \in IncomingStates
  /\ epoch = Unbound
  /\ batches = <<>>
  /\ loss_epoch = Unbound
  /\ noise_steps = Unbound
  /\ traced = {}
  /\ drawn_in = Unbound
  /\ num_updates = 0
  /\ batch_log = <<>>
  /\ num_fetched = 0
  /\ num_evaluated = 0
  /\ ndt_evaluated = <<>>

InitTrain ==
  /\ EnterTrain
  /\ PureIdle

\* lines 118-143: the constants and the assertions
SetConstants ==
  /\ tpc = "enter"
  /\ IF TrainAsserts(args.jump_steps, args.direct_steps, args.unroll_steps,
                     dataset.len_traj, dataset.nums.train, FLAGS.batch_size,
                     NUM_DEVICES)
     THEN /\ locals' =
               LET unroll_offset ==
                     UnrollOffset(args.unroll_steps, args.direct_steps)
                   num_times == NumTimes(dataset.len_traj, args.jump_steps)
               IN [num_samples_trn |-> dataset.nums.train,
                   len_traj |-> dataset.len_traj,
                   unroll_offset |-> unroll_offset,
                   num_batches |-> dataset.nums.train \div FLAGS.batch_size,
                   batch_size_per_device |->
                     (args.jump_steps * FLAGS.batch_size) \div NUM_DEVICES,
                   num_times |-> num_times,
                   num_lead_times |->
                     NumLeadTimes(num_times, unroll_offset, args.direct_steps),
                   lead_times |->
                     LeadTimes(unroll_offset, num_times, args.direct_steps)]
          /\ tpc' = "evaluate_before"
     ELSE /\ tpc' = "aborted"
          /\ UNCHANGED locals
  /\ UNCHANGED <<num_fetched, num_evaluated, ndt_evaluated>>
  /\ UNCHANGED <<mainVars, pureVars, args, dataset, NUM_DEVICES, state,
                 epoch, batches,
                 loss_epoch, noise_steps, traced, drawn_in, num_updates,
                 batch_log>>

\* lines 568-604: the evaluations before training
EvaluateBefore ==
  /\ tpc = "evaluate_before"
  /\ \E ev \in {EvaluateBoth(dataset.nums.train, dataset.nums.valid,
                              FLAGS.batch_size)} :
        /\ num_fetched' = num_fetched + ev.fetched
        /\ num_evaluated' = num_evaluated + ev.evaluated
        /\ ndt_evaluated' =
             IF ev.evaluated > 0
             THEN ScanNdt(args.jump_steps, args.jump_steps, args.direct_steps)
             ELSE ndt_evaluated
        /\ IF ev.returns
           THEN tpc' = "epochs" /\ epoch' = 1
           ELSE tpc' = "aborted" /\ UNCHANGED epoch
  /\ UNCHANGED <<mainVars, pureVars, args, dataset, NUM_DEVICES, locals,
                 state, batches,
                 loss_epoch, noise_steps, traced, drawn_in, num_updates,
                 batch_log>>

\* lines 606-616 and 355-357: an epoch starts; dataset.batches shuffles the
\* training split with subkey_0
StartEpoch ==
  /\ tpc = "epochs"
  /\ epoch <= args.epochs
  /\ IF BatchesAsserts(dataset.nums.train, FLAGS.batch_size)
     THEN /\ \E idx \in Permutations0(dataset.nums.train) :
               batches' = Batches(dataset.nums.train, FLAGS.batch_size, idx)
          /\ loss_epoch' = 0
          /\ batch_log' = <<>>
          /\ tpc' = "train_one_epoch"
     ELSE /\ tpc' = "aborted"
          /\ UNCHANGED <<batches, loss_epoch, batch_log>>
  /\ UNCHANGED <<num_fetched, num_evaluated, ndt_evaluated>>
  /\ UNCHANGED <<mainVars, pureVars, args, dataset, NUM_DEVICES, locals,
                 state, epoch,
                 noise_steps, traced, drawn_in, num_updates>>

\* lines 358-393: one batch of train_one_epoch, with _train_one_batch (lines
\* 265-348) and the functions it calls (lines 153-263).  _train_one_batch is
\* a jax.pmap of a Python function whose loops are jax.lax.fori_loop: JAX
\* runs the Python body, and so np.random.choice of line 205, only when it
\* traces the function, which it does on the first call with arguments of a
\* given signature (state.step a Python int or an array); every later call
\* runs the compiled computation, into which noise_steps and grads_steps
\* are baked, for every direct step and every chunk of lead times.
\* Traces(seen, py_int): whether the call traces the function; a call with
\* a signature not seen before may or may not trace it again, since the
\* Python int and the array it becomes have the same shape and dtype.
Traces(seen, py_int) ==
  IF seen = {} THEN {TRUE}
  ELSE IF py_int \in seen THEN {FALSE}
  ELSE {TRUE, FALSE}

TrainOneBatch ==
  /\ tpc = "train_one_epoch"
  /\ batches # <<>>
  /\ IF Len(Head(batches)) # FLAGS.batch_size
     THEN /\ tpc' = "aborted"
          /\ UNCHANGED <<state, batches, loss_epoch, noise_steps, traced,
                         drawn_in, num_updates, batch_log>>
     ELSE \E loss \in 0..MaxLoss :
          \E draw \in NoiseStepsChoices(args.unroll_steps) :
          \E trace \in Traces(traced, state.py_int) :
            LET noise == IF trace THEN draw ELSE noise_steps
                grads_steps == GradsSteps(args.unroll_steps, noise)
                weight == BatchWeight(FLAGS.batch_size, locals.num_samples_trn)
            IN /\ noise_steps' = noise
               /\ drawn_in' = IF trace THEN num_updates + 1 ELSE drawn_in
               /\ traced' = traced \cup {state.py_int}
               /\ num_updates' = num_updates + 1
               /\ state' = [step |-> state.step
                                      + Count(TrainOneBatchOps,
                                              "apply_gradients"),
                             py_int |-> FALSE]
               /\ loss_epoch' = AccumulateLoss(loss_epoch, loss, weight)
               /\ batch_log' = Append(batch_log,
                    [batch |-> Head(batches),
                     loss |-> loss,
                     weight |-> weight,
                     lead_times |-> locals.lead_times,
                     ndt_batch |->
                       NdtBatch(args.jump_steps, args.direct_steps),
                     u_tgt |->
                       [lt \in locals.lead_times |->
                          [i \in 1..args.direct_steps |-> UTgtIndex(lt, i)]],
                     direct_step_weight |->
                       DirectStepWeight(args.direct_steps),
                     lead_time_weight |->
                       LeadTimeWeight(locals.num_lead_times),
                     noise_steps |-> noise,
                     grads_steps |-> grads_steps,
                     jumps_without_grads |-> noise,
                     jumps_with_grads |-> grads_steps,
                     update |-> num_updates + 1,
                     ops |-> TrainOneBatchOps,
                     step_before |-> state.step,
                     drawn_in |-> IF trace THEN num_updates + 1 ELSE drawn_in])
               /\ batches' = Tail(batches)
               /\ tpc' = tpc
  /\ num_fetched' = num_fetched + 1
  /\ UNCHANGED <<mainVars, pureVars, args, dataset, NUM_DEVICES, locals,
                 epoch, num_evaluated, ndt_evaluated>>

\* line 395: train_one_epoch returns
TrainOneEpochReturns ==
  /\ tpc = "train_one_epoch"
  /\ batches = <<>>
  /\ tpc' = "epoch_trained"
  /\ UNCHANGED <<num_fetched, num_evaluated, ndt_evaluated>>
  /\ UNCHANGED <<mainVars, pureVars, args, dataset, NUM_DEVICES, locals,
                 state, epoch,
                 batches, loss_epoch, noise_steps, traced, drawn_in,
                 num_updates, batch_log>>

\* lines 618-675: the evaluations after the epoch, the checkpoint
EvaluateAndSave ==
  /\ tpc = "epoch_trained"
  /\ \E ev \in {EvaluateBoth(dataset.nums.train, dataset.nums.valid,
                              FLAGS.batch_size)} :
        /\ num_fetched' = num_fetched + ev.fetched
        /\ num_evaluated' = num_evaluated + ev.evaluated
        /\ ndt_evaluated' =
             IF ev.evaluated > 0
             THEN ScanNdt(args.jump_steps, args.jump_steps, args.direct_steps)
             ELSE ndt_evaluated
        /\ IF ev.returns
           THEN tpc' = "epochs" /\ epoch' = epoch + 1
           ELSE tpc' = "aborted" /\ UNCHANGED epoch
  /\ UNCHANGED <<mainVars, pureVars, args, dataset, NUM_DEVICES, locals,
                 state, batches,
                 loss_epoch, noise_steps, traced, drawn_in, num_updates,
                 batch_log>>

\* line 677: train() returns the state
ReturnState ==
  /\ tpc = "epochs"
  /\ epoch > args.epochs
  /\ tpc' = "returned"
  /\ UNCHANGED <<num_fetched, num_evaluated, ndt_evaluated>>
  /\ UNCHANGED <<mainVars, pureVars, args, dataset, NUM_DEVICES, locals,
                 state, epoch,
                 batches, loss_epoch, noise_steps, traced, drawn_in,
                 num_updates, batch_log>>

NextTrain ==
  \/ SetConstants
  \/ EvaluateBefore
  \/ StartEpoch
  \/ TrainOneBatch
  \/ TrainOneEpochReturns
  \/ EvaluateAndSave
  \/ ReturnState

SpecTrain == InitTrain /\ [][NextTrain]_vars

\* ------------------------------- train_one_epoch() on two orders of batches

\* train() up to its first epoch, then train_one_epoch() twice from the
\* state the epoch starts in, on the same batches in two orders
InitOrder ==
  /\ EnterTrain
  /\ rerun = [start |-> state, first |-> <<>>]
  /\ FnIdle

\* the batches of a log, as a set
BatchSet(bs) == {bs[i] : i \in 1..Len(bs)}

\* the second run is given the batches of the first, in any order
StartEpochSame ==
  /\ StartEpoch
  /\ rerun.first # <<>> =>
       BatchSet(batches') = BatchSet([i \in 1..Len(rerun.first.log) |->
                                        rerun.first.log[i].batch])

\* _train_one_batch is a function of the state and the batch (the key left
\* aside): where the second run has trained the same batches in the same
\* order as the first, it is in the same state and finds the same loss
TrainOneBatchSame ==
  /\ TrainOneBatch
  /\ LET k == Len(batch_log')
     IN ( /\ rerun.first # <<>>
          /\ tpc' = "train_one_epoch"
          /\ \A j \in 1..k : rerun.first.log[j].batch = batch_log'[j].batch )
        => batch_log'[k].loss = rerun.first.log[k].loss

\* the first run has returned: keep what it returned and go back to the state
\* and the position it started from
Rewind ==
  /\ tpc = "epoch_trained"
  /\ rerun.first = <<>>
  /\ rerun' = [rerun EXCEPT !.first = [log |-> batch_log,
                                       loss_epoch |-> loss_epoch,
                                       state |-> state]]
  /\ state' = rerun.start
  /\ tpc' = "epochs"
  /\ UNCHANGED <<num_fetched, num_evaluated, ndt_evaluated>>
  /\ UNCHANGED <<mainVars, fnVars, args, dataset, NUM_DEVICES, locals, epoch,
                 batches, loss_epoch, noise_steps, traced, drawn_in,
                 num_updates, batch_log>>

NextOrder ==
  \/ SetConstants
  \/ EvaluateBefore
  \/ StartEpochSame
  \/ TrainOneBatchSame
  \/ TrainOneEpochReturns
  \/ Rewind

SpecOrder == InitOrder /\ [][NextOrder]_vars

\* ------------------------------------------- rigno/utils.py: normalization

\* The arrays are of JAX's default type float32.  A finite value is
\* m * 2^e with m odd, or m = 0 and e = 0; the result of an operation is the
\* exact result rounded to the nearest value of Precision32 significant bits,
\* ties to even.  Exponents are unbounded (no overflow, no subnormals).
Precision32 == 24

Abs(n) == IF n < 0 THEN -n ELSE n

Sign(n) == IF n < 0 THEN -1 ELSE 1

RECURSIVE Pow2(_)
Pow2(k) == IF k = 0 THEN 1 ELSE 2 * Pow2(k - 1)

\* 2^Precision32: the significands are below it
Significands == Pow2(Precision32)

NaN == [cls |-> "nan", m |-> 0, e |-> 0]

Inf(sign) == [cls |-> "inf", m |-> sign, e |-> 0]

\* the float32 value m * 2^e, for |m| < 2^Precision32
RECURSIVE Float(_, _)
Float(m, e) ==
  IF m = 0 THEN [cls |-> "finite", m |-> 0, e |-> 0]
  ELSE IF m % 2 = 0 THEN Float(m \div 2, e + 1)
  ELSE [cls |-> "finite", m |-> m, e |-> e]

Zero == Float(0, 0)

One == Float(1, 0)

\* the magnitude n * 2^e (and a non-zero rest below 2^e if sticky), rounded
\* to Precision32 significant bits, ties to even
RECURSIVE RoundMagnitude(_, _, _)
RoundMagnitude(n, e, sticky) ==
  IF n < Significands
  THEN [m |-> n, e |-> e]
  ELSE IF n < 2 * Significands
       THEN LET q == n \div 2
                up == n % 2 = 1 /\ (sticky \/ q % 2 = 1)
            IN [m |-> IF up THEN q + 1 ELSE q, e |-> e + 1]
       ELSE RoundMagnitude(n \div 2, e + 1, sticky \/ n % 2 = 1)

Round32(m, e, sticky) ==
  LET r == RoundMagnitude(Abs(m), e, sticky)
  IN Float(Sign(m) * r.m, r.e)

\* the significand of a as a multiple of 2^e, e <= a.e
Align(a, e) == a.m * Pow2(a.e - e)

FloatAdd32(a, b) ==
  LET e == IF a.e <= b.e THEN a.e ELSE b.e
  IN Round32(Align(a, e) + Align(b, e), e, FALSE)

FloatSub32(a, b) ==
  LET e == IF a.e <= b.e THEN a.e ELSE b.e
  IN Round32(Align(a, e) - Align(b, e), e, FALSE)

FloatMul32(a, b) == Round32(a.m * b.m, a.e + b.e, FALSE)

\* long division by d: the quotient q * 2^-k with the rest r * 2^-k is
\* taken to Precision32 + 1 bits
RECURSIVE DivideTo(_, _, _, _)
DivideTo(q, r, d, k) ==
  IF q >= Significands
  THEN [q |-> q, r |-> r, k |-> k]
  ELSE IF 2 * r >= d
       THEN DivideTo(2 * q + 1, 2 * r - d, d, k + 1)
       ELSE DivideTo(2 * q, 2 * r, d, k + 1)

\* a / b: x / 0 is an infinity and 0 / 0 a NaN, without an error
FloatDiv32(a, b) ==
  IF b.m = 0
  THEN IF a.m = 0 THEN NaN ELSE Inf(Sign(a.m))
  ELSE IF a.m = 0
       THEN Zero
       ELSE LET n == Abs(a.m)
                d == Abs(b.m)
                s == DivideTo(n \div d, n % d, d, 0)
            IN Round32(Sign(a.m) * Sign(b.m) * s.q, a.e - b.e - s.k,
                       s.r # 0)

\* mutant: the scale is used as it is
normalize_AnyScale(arr, shift, scale) ==
  [i \in DOMAIN arr |-> FloatDiv32(FloatSub32(arr[i], shift[i]), scale[i])]

\* lines 53-56: scale = jnp.where(scale == 0., 1., scale);
\* arr = (arr - shift) / scale, entry by entry
normalize(arr, shift, scale) ==
  LET scale_1 == [i \in DOMAIN scale |->
                    IF scale[i] = Zero THEN One ELSE scale[i]]
  IN [i \in DOMAIN arr |->
        FloatDiv32(FloatSub32(arr[i], shift[i]), scale_1[i])]

\* mutant: the mean is not added
unnormalize_NoMean(arr, mean, std) ==
  [i \in DOMAIN arr |-> FloatMul32(std[i], arr[i])]

\* lines 58-60: arr = std * arr + mean, entry by entry
unnormalize(arr, mean, std) ==
  [i \in DOMAIN arr |-> FloatAdd32(FloatMul32(std[i], arr[i]), mean[i])]

\* the entries of the arrays: 0, 1, 1 + 2^-23, -1.5, 5
ArrValues ==
  {Zero, One, Float(8388609, -23), Float(-3, -1), Float(5, 0)}

\* the entries of shift or mean: 0, 1, -1.5
ShiftValues == {Zero, One, Float(-3, -1)}

\* the entries of scale or std: 0, 1, 3
ScaleValues == {Zero, One, Float(3, 0)}

InitNormalize ==
  /\ MainIdle
  /\ FLAGS = <<>>
  /\ TrainIdle
  /\ rerun = <<>>
  /\ DsIdle
  /\ PrdIdle
  /\ DownIdle
  /\ SlcIdle
  /\ BatIdle
  /\ \E n \in 1..MaxDim :
       nrm \in [pc : {"called"},
                arr : [1..n -> ArrValues],
                shift : [1..n -> ShiftValues],
                scale : [1..n -> ScaleValues],
                out : {<<>>},
                back : {<<>>}]

\* normalize(arr, shift, scale)
Normalize ==
  /\ nrm # <<>>
  /\ nrm.pc = "called"
  /\ nrm' = [nrm EXCEPT !.out = normalize(nrm.arr, nrm.shift, nrm.scale),
                        !.pc = "normalized"]
  /\ UNCHANGED <<mainVars, trainVars, rerun, dsVars, prd, down, slc, bat>>

\* unnormalize(arr, mean, std) with mean = shift, std = scale
Unnormalize ==
  /\ nrm # <<>>
  /\ nrm.pc = "called"
  /\ nrm' = [nrm EXCEPT !.out = unnormalize(nrm.arr, nrm.shift, nrm.scale),
                        !.pc = "unnormalized"]
  /\ UNCHANGED <<mainVars, trainVars, rerun, dsVars, prd, down, slc, bat>>

\* normalize applied to the result of unnormalize, with the same statistics
NormalizeBack ==
  /\ nrm # <<>>
  /\ nrm.pc = "unnormalized"
  /\ nrm' = [nrm EXCEPT !.back = normalize(nrm.out, nrm.shift, nrm.scale),
                        !.pc = "back"]
  /\ UNCHANGED <<mainVars, trainVars, rerun, dsVars, prd, down, slc, bat>>

NextNormalize ==
  \/ Normalize
  \/ Unnormalize
  \/ NormalizeBack

SpecNormalize == InitNormalize /\ [][NextNormalize]_vars

\* ------------------------------------------------------- mpgno/dataset.py
\*
\* A sample is named by its place 0, 1, ... in the file of the dataset.  The
\* statistics are modelled by what they were computed from: the samples, and
\* for the residuals and derivatives the step sizes s whose residuals
\* trj[:, s:] - trj[:, :-s] were concatenated into the one array that
\* np.mean and np.std are taken of.

\* a statistic that is None
NoStats == <<>>

\* np.arange(a, b)
ArangeFrom(a, b) == [i \in 1..(b - a) |-> a + (i - 1)]

\* self.data: with preload, the samples of the file that lines 310-314
\* concatenate; the value is used only when preload is set
PreloadedData(preload, len_dataset, n_train, n_valid, n_test) ==
  IF preload
  THEN Arange(n_train) \o ArangeFrom(n_train, n_train + n_valid)
         \o ArangeFrom(len_dataset - n_test, len_dataset)
  ELSE <<>>

\* self.length
DatasetLength(preload, len_dataset, n_train, n_valid, n_test) ==
  IF preload THEN n_train + n_valid + n_test ELSE len_dataset

\* Dataset.__init__ returns: sample 0 can be fetched, the assertion of line
\* 290 holds and, with preload, the reads of lines 311-313 are inside the file
DatasetAccepts(preload, len_dataset, n_train, n_valid, n_test) ==
  /\ len_dataset >= 1
  /\ n_train + n_valid + n_test
       <= DatasetLength(preload, len_dataset, n_train, n_valid, n_test)
  /\ preload => /\ n_train + n_valid <= len_dataset
                /\ n_test <= len_dataset

\* mutant: the test split is the first n_test samples
TestIndices_First(length, n_test) == Arange(n_test)

\* line 298: the last n_test samples
TestIndices(length, n_test) == ArangeFrom(length - n_test, length)

\* Dataset.__init__, where perm is jax.random.permutation(key, n_train) and
\* shape_1 the length of the time axis of a fetched sample
Dataset(preload, len_dataset, perm, n_valid, n_test, shape_1) ==
  LET n_train == Len(perm)
      length == DatasetLength(preload, len_dataset, n_train, n_valid, n_test)
  IN  [preload |-> preload,
       data |-> PreloadedData(preload, len_dataset, n_train, n_valid, n_test),
       length |-> length,
       shape_1 |-> shape_1,
       nums |-> [train |-> n_train, valid |-> n_valid, test |-> n_test],
       idx_modes |-> [train |-> perm,
                      valid |-> ArangeFrom(n_train, n_train + n_valid),
                      test |-> TestIndices(length, n_test)],
       stats |-> [trj |-> NoStats, der |-> NoStats, res |-> NoStats],
       op |-> "__init__",
       idx |-> {0},
       read |-> {0}]

\* Dataset._fetch(idx): the samples of the file it reads for the global
\* indices idx
_fetch(d, idx) ==
  IF d.preload THEN {d.data[i + 1] : i \in idx} ELSE idx

\* Dataset._fetch_mode(idx, mode), for local indices that pass its assertion
_fetch_mode(d, idx, mode) ==
  _fetch(d, {d.idx_modes[mode][i + 1] : i \in idx})

\* the samples that Dataset.train, .valid or .test can return
Served(d, mode) == _fetch_mode(d, 0..(d.nums[mode] - 1), mode)

\* Dataset.compute_stats(axes, residual_steps): the three assertions, the
\* statistics of the trajectories, and those of the residuals and derivatives
\* (np.concatenate raises on the empty list of residual_steps = 0)
compute_stats(d, axes, residual_steps) ==
  IF ~(residual_steps >= 0 /\ residual_steps < d.shape_1 /\ 1 \in axes)
  THEN [d EXCEPT !.op = "compute_stats: AssertionError", !.idx = {},
                 !.read = {}]
  ELSE LET trj == _fetch_mode(d, 0..(d.nums.train - 1), "train")
           steps == 1..residual_steps
       IN  IF residual_steps = 0
           THEN [d EXCEPT !.stats.trj = [samples |-> trj, steps |-> {}],
                          !.op = "compute_stats: ValueError",
                          !.idx = 0..(d.nums.train - 1),
                          !.read = trj]
           ELSE [d EXCEPT !.stats = [trj |-> [samples |-> trj, steps |-> {}],
                                     res |-> [samples |-> trj, steps |-> steps],
                                     der |-> [samples |-> trj, steps |-> steps]],
                          !.op = "compute_stats",
                          !.idx = 0..(d.nums.train - 1),
                          !.read = trj]

\* OperatorNormalizer(operator, stats_trj, stats_res) as train() builds it
\* from the statistics of the dataset
OperatorNormalizer(stats_trj, stats_res) ==
  [stats_trj |-> stats_trj, stats_res |-> stats_res, applied |-> <<>>]

\* normalizer.apply(variables, specs, u_inp, ndt): the input is normalized,
\* the operator is called and its output is unnormalized with the residual
\* statistics that the normalizer holds
NormalizerApply(nz, ndt) ==
  [ndt |-> ndt, stats_res |-> nz.stats_res, raised |-> FALSE,
   operator_calls |-> 1]

\* a Dataset that __init__ has returned
InitDataset ==
  /\ MainIdle
  /\ FLAGS = <<>>
  /\ TrainIdle
  /\ rerun = <<>>
  /\ nrm = <<>>
  /\ PrdIdle
  /\ DownIdle
  /\ SlcIdle
  /\ BatIdle
  /\ onz = <<>>
  /\ \E preload \in BOOLEAN, len_dataset \in 1..MaxLenDataset,
        n_train, n_valid, n_test \in 0..MaxLenDataset,
        shape_1 \in {MaxResidualSteps, Cutoff} :
       /\ DatasetAccepts(preload, len_dataset, n_train, n_valid, n_test)
       /\ \E perm \in Permutations0(n_train) :
            ds = Dataset(preload, len_dataset, perm, n_valid, n_test, shape_1)

\* dataset.compute_stats(axes, residual_steps)
ComputeStats ==
  /\ ds # <<>>
  /\ \E axes \in {{0}, {0, 1}}, residual_steps \in 0..MaxResidualSteps :
       ds' = compute_stats(ds, axes, residual_steps)
  /\ UNCHANGED <<mainVars, trainVars, rerun, nrm, onz, prd, down, slc, bat>>

\* dataset.train(idx), dataset.valid(idx), dataset.test(idx) with one index
FetchMode ==
  /\ ds # <<>>
  /\ \E mode \in {"train", "valid", "test"}, i \in 0..(MaxLenDataset - 1) :
       ds' = IF i < Len(ds.idx_modes[mode])
             THEN [ds EXCEPT !.op = mode, !.idx = {i},
                             !.read = _fetch_mode(ds, {i}, mode)]
             ELSE [ds EXCEPT !.op = "_fetch_mode: AssertionError",
                             !.idx = {i}, !.read = {}]
  /\ UNCHANGED <<mainVars, trainVars, rerun, nrm, onz, prd, down, slc, bat>>

\* every batch of dataset.batches(mode, batch_size, key)
FetchBatches ==
  /\ ds # <<>>
  /\ \E mode \in {"train", "valid", "test"}, batch_size \in 0..MaxBatchSize :
       ds' = IF BatchesAsserts(ds.nums[mode], batch_size)
             THEN [ds EXCEPT !.op = "batches",
                             !.idx = 0..(ds.nums[mode] - 1),
                             !.read = Served(ds, mode)]
             ELSE [ds EXCEPT !.op = "batches: AssertionError", !.idx = {},
                             !.read = {}]
  /\ UNCHANGED <<mainVars, trainVars, rerun, nrm, onz, prd, down, slc, bat>>

\* train() builds the normalizer from the statistics of the dataset, which
\* main() has computed before
BuildNormalizer ==
  /\ ds # <<>>
  /\ ds.stats.res # NoStats
  /\ onz' = OperatorNormalizer(ds.stats.trj, ds.stats.res)
  /\ UNCHANGED <<mainVars, trainVars, rerun, nrm, ds, prd, down, slc, bat>>

\* the normalizer is applied with some ndt, up to one step more than the
\* residuals can have been computed for
ApplyNormalizer ==
  /\ onz # <<>>
  /\ \E ndt \in 1..(MaxResidualSteps + 1) :
       onz' = [onz EXCEPT !.applied = NormalizerApply(onz, ndt)]
  /\ UNCHANGED <<mainVars, trainVars, rerun, nrm, ds, prd, down, slc, bat>>

NextDataset ==
  \/ ComputeStats
  \/ FetchMode
  \/ FetchBatches
  \/ BuildNormalizer
  \/ ApplyNormalizer

SpecDataset == InitDataset /\ [][NextDataset]_vars

\* ------------------------------------------- the AutoregressivePredictor
\*
\* predictor = AutoregressivePredictor(operator = normalizer, num_steps_direct,
\* ndt_base) of train().  An input window is one of the values 0..MaxInput,
\* and one application of the operator maps a window to the next one.

\* normalizer.apply on the window u with step size ndt: a function of its
\* arguments that moves every window
PredictorApply(u, ndt) == (u + ndt) % (MaxInput + 1)

\* predictor.unroll(variables, specs, u_inp, num_steps), which applies the
\* operator num_steps times at ndt_base, each time to the previous prediction,
\* and returns the predictions and the last input window
RECURSIVE unroll_KeepInputs(_, _, _)
unroll_KeepInputs(u_inp, num_steps, ndt_base) ==
  IF num_steps = 0
  THEN [trajectory |-> <<>>, final_input |-> u_inp]
  ELSE LET prev == unroll_KeepInputs(u_inp, num_steps - 1, ndt_base)
           u_out == PredictorApply(prev.final_input, ndt_base)
       IN  [trajectory |-> Append(prev.trajectory, prev.final_input),
            final_input |-> u_out]

RECURSIVE unroll(_, _, _)
unroll(u_inp, num_steps, ndt_base) ==
  IF num_steps = 0
  THEN [trajectory |-> <<>>, final_input |-> u_inp]
  ELSE LET prev == unroll(u_inp, num_steps - 1, ndt_base)
           u_out == PredictorApply(prev.final_input, ndt_base)
       IN  [trajectory |-> Append(prev.trajectory, u_out),
            final_input |-> u_out]

\* predictor.jump(variables, specs, u_inp, num_jumps): the same steps, of
\* which only the last window is kept
RECURSIVE jump(_, _, _)
jump(u_inp, num_jumps, ndt_base) ==
  IF num_jumps = 0
  THEN u_inp
  ELSE jump(PredictorApply(u_inp, ndt_base), num_jumps - 1, ndt_base)

\* a predictor with its arguments: the input window, N for num_steps and
\* num_jumps, and ndt_base (jump_steps in train())
InitPredictor ==
  /\ MainIdle
  /\ FLAGS = <<>>
  /\ TrainIdle
  /\ rerun = <<>>
  /\ nrm = <<>>
  /\ DsIdle
  /\ DownIdle
  /\ SlcIdle
  /\ BatIdle
  /\ prd \in [u_inp : 0..MaxInput,
               N : 0..MaxNumSteps,
               ndt_base : 1..MaxJumpSteps,
               unrolled : {<<>>},
               jumped : {Unbound}]

\* rollout, final = predictor.unroll(..., num_steps = N)
Unroll ==
  /\ prd # <<>>
  /\ prd.unrolled = <<>>
  /\ prd' = [prd EXCEPT !.unrolled = unroll(prd.u_inp, prd.N, prd.ndt_base)]
  /\ UNCHANGED <<mainVars, trainVars, rerun, nrm, dsVars, down, slc, bat>>

\* u_inp_noisy = predictor.jump(..., num_jumps = N)
Jump ==
  /\ prd # <<>>
  /\ prd.jumped = Unbound
  /\ prd' = [prd EXCEPT !.jumped = jump(prd.u_inp, prd.N, prd.ndt_base)]
  /\ UNCHANGED <<mainVars, trainVars, rerun, nrm, dsVars, down, slc, bat>>

NextPredictor ==
  \/ Unroll
  \/ Jump

SpecPredictor == InitPredictor /\ [][NextPredictor]_vars

\* ------------------------------- the downsampling of a batch (train.py)
\*
\* An array is its shape and its entries in row-major order; indices count
\* from 0.  An entry of trajs is a snapshot, named by its sample and its time
\* step; an entry of specs is named by its sample and its place in the specs
\* of the sample.  The axes of a snapshot (grid points, variables) stay last
\* in every reshape and are not modelled.

\* the entry (r, c) of a 2-d array
At2(a, r, c) == a.flat[r * a.shape[2] + c + 1]

\* a batch of batch_size trajectories of len_traj steps
TrajsOf(batch_size, len_traj) ==
  [shape |-> <<batch_size, len_traj>>,
   flat |-> [q \in 1..(batch_size * len_traj) |->
               [sample |-> (q - 1) \div len_traj,
                time |-> (q - 1) % len_traj]]]

\* the specs of a batch, spec_dim entries per sample
SpecsOf(batch_size, spec_dim) ==
  [shape |-> <<batch_size, spec_dim>>,
   flat |-> [q \in 1..(batch_size * spec_dim) |->
               [sample |-> (q - 1) \div spec_dim,
                entry |-> (q - 1) % spec_dim]]]

\* a[:, :-1] of a 2-d array
DropLast(a) ==
  LET n == a.shape[2] - 1
  IN  [shape |-> <<a.shape[1], n>>,
       flat |-> [q \in 1..(a.shape[1] * n) |->
                   At2(a, (q - 1) \div n, (q - 1) % n)]]

\* a.reshape(shape)
reshape(a, shape) == [shape |-> shape, flat |-> a.flat]

\* a.swapaxes(1, 2) of a 3-d array
swapaxes_1_2(a) ==
  LET d1 == a.shape[1]
      d2 == a.shape[2]
      d3 == a.shape[3]
  IN  [shape |-> <<d1, d3, d2>>,
       flat |-> [q \in 1..(d1 * d2 * d3) |->
                   LET i0 == (q - 1) \div (d3 * d2)
                       i2 == ((q - 1) % (d3 * d2)) \div d2
                       i1 == (q - 1) % d2
                   IN  a.flat[(i0 * d2 + i1) * d3 + i2 + 1]]]

\* a.swapaxes(0, 1) of a 3-d array
swapaxes_0_1(a) ==
  LET d1 == a.shape[1]
      d2 == a.shape[2]
      d3 == a.shape[3]
  IN  [shape |-> <<d2, d1, d3>>,
       flat |-> [q \in 1..(d1 * d2 * d3) |->
                   LET i1 == (q - 1) \div (d1 * d3)
                       i0 == ((q - 1) % (d1 * d3)) \div d3
                       i2 == (q - 1) % d3
                   IN  a.flat[(i0 * d2 + i1) * d3 + i2 + 1]]]

\* jnp.concatenate(jnp.split(a, n, axis=1), axis=0) of a 2-d array
split_concatenate(a, n) ==
  LET w == a.shape[2] \div n
      rows == a.shape[1]
  IN  [shape |-> <<n * rows, w>>,
       flat |-> [q \in 1..(n * rows * w) |->
                   LET r == (q - 1) \div w
                   IN  At2(a, r % rows, (r \div rows) * w + ((q - 1) % w))]]

\* jnp.tile(a, n) of a 2-d array: n copies along the last axis
tile(a, n) ==
  LET w == a.shape[2]
  IN  [shape |-> <<a.shape[1], w * n>>,
       flat |-> [q \in 1..(a.shape[1] * w * n) |->
                   At2(a, (q - 1) \div (w * n), ((q - 1) % (w * n)) % w)]]

\* mutant: the time axis is cut into jump_steps pieces without the swap
DownsampleTrajs_NoSwap(trajs, batch_size, len_traj, jump_steps) ==
  split_concatenate(DropLast(trajs), jump_steps)

\* lines 366-374 and 496-504: the downsampled trajectories
DownsampleTrajs(trajs, batch_size, len_traj, jump_steps) ==
  split_concatenate(
    reshape(
      swapaxes_1_2(
        reshape(DropLast(trajs),
                <<batch_size, (len_traj - 1) \div jump_steps, jump_steps>>)),
      <<batch_size, len_traj - 1>>),
    jump_steps)

\* lines 375-379 and 505-509: the specs of the downsampled trajectories
TileSpecs(specs, batch_size, jump_steps) ==
  LET tiled == tile(specs, jump_steps)
      spec_dim == tiled.shape[2] \div jump_steps
  IN  reshape(
        swapaxes_0_1(reshape(tiled, <<batch_size, jump_steps, spec_dim>>)),
        <<batch_size * jump_steps, spec_dim>>)

\* a batch that train_one_epoch or evaluate has unwrapped, in a train() whose
\* assertion (len_traj - 1) % jump_steps = 0 has passed
InitDownsample ==
  /\ MainIdle
  /\ FLAGS = <<>>
  /\ TrainIdle
  /\ rerun = <<>>
  /\ nrm = <<>>
  /\ DsIdle
  /\ PrdIdle
  /\ SlcIdle
  /\ BatIdle
  /\ \E batch_size \in 1..MaxBatchSize, jump_steps \in 1..MaxJumpSteps,
        num_times \in 1..MaxNumTimes, spec_dim \in 1..MaxSpecDim,
        use_specs \in BOOLEAN :
       down = [batch_size |-> batch_size,
               jump_steps |-> jump_steps,
               len_traj |-> num_times * jump_steps + 1,
               _use_specs |-> use_specs,
               trajs |-> TrajsOf(batch_size, num_times * jump_steps + 1),
               specs |-> IF use_specs THEN SpecsOf(batch_size, spec_dim)
                         ELSE <<>>,
               pc |-> "unwrapped"]

\* trajs = jnp.concatenate(jnp.split(...))
DownsampleBatch ==
  /\ down # <<>>
  /\ down.pc = "unwrapped"
  /\ down' = [down EXCEPT
               !.trajs = DownsampleTrajs(down.trajs, down.batch_size,
                                         down.len_traj, down.jump_steps),
               !.pc = "trajs"]
  /\ UNCHANGED <<mainVars, trainVars, rerun, nrm, dsVars, prd, slc, bat>>

\* specs = jnp.tile(...) if _use_specs else None
TileBatchSpecs ==
  /\ down # <<>>
  /\ down.pc = "trajs"
  /\ down' = [down EXCEPT
               !.specs = IF down._use_specs
                         THEN TileSpecs(down.specs, down.batch_size,
                                        down.jump_steps)
                         ELSE <<>>,
               !.pc = "downsampled"]
  /\ UNCHANGED <<mainVars, trainVars, rerun, nrm, dsVars, prd, slc, bat>>

NextDownsample ==
  \/ DownsampleBatch
  \/ TileBatchSpecs

SpecDownsample == InitDownsample /\ [][NextDownsample]_vars

\* ------------------------- the input/target pairs of a batch (train.py)
\*
\* trajs is the part of a downsampled batch on one device:
\* batch_size_per_device trajectories of num_times steps.  An entry of a
\* sliced array is named by its sample and the time step that was read, and
\* records the lead time the slice was made for.

\* the larger of two integers
Max(a, b) == IF a >= b THEN a ELSE b

\* jax.lax.dynamic_slice_in_dim(operand, start_index, slice_size, axis): the
\* index the slice starts at, start_index clamped so that the slice lies
\* inside the n entries of the axis
DynamicSliceStart(n, start_index, slice_size) ==
  Max(0, Min(start_index, n - slice_size))

\* jax.vmap(lambda lt: dynamic_slice_in_dim(trajs, lt + shift, slice_size,
\* axis=1))(lead_times): an array [num_lead_times, batch_size_per_device,
\* slice_size]
VmapSlices(lead_times, batch_size_per_device, num_times, shift, slice_size) ==
  [shape |-> <<Len(lead_times), batch_size_per_device, slice_size>>,
   flat |-> [q \in 1..(Len(lead_times) * batch_size_per_device * slice_size) |->
     LET lt == lead_times[(q - 1) \div (batch_size_per_device * slice_size) + 1]
     IN  [sample |-> ((q - 1) % (batch_size_per_device * slice_size))
                       \div slice_size,
          lt |-> lt,
          time |-> DynamicSliceStart(num_times, lt + shift, slice_size)
                     + ((q - 1) % slice_size)]]]

\* specs[None, :, :].repeat(repeats=num_lead_times, axis=0): copy k of the
\* specs of every sample of the device
RepeatSpecs(num_lead_times, batch_size_per_device, spec_dim) ==
  [shape |-> <<num_lead_times, batch_size_per_device, spec_dim>>,
   flat |-> [q \in 1..(num_lead_times * batch_size_per_device * spec_dim) |->
     [sample |-> ((q - 1) % (batch_size_per_device * spec_dim)) \div spec_dim,
      copy |-> (q - 1) \div (batch_size_per_device * spec_dim),
      entry |-> (q - 1) % spec_dim]]]

\* mutant: the input is sliced at the lead time itself
ULagBatch_AtLeadTime(lead_times, batch_size_per_device, num_times, unroll_offset) ==
  reshape(VmapSlices(lead_times, batch_size_per_device, num_times, 0, 1),
          <<batch_size_per_device * Len(lead_times), 1>>)

\* lines 275-279, 290-291: u_lag_batch
ULagBatch(lead_times, batch_size_per_device, num_times, unroll_offset) ==
  reshape(VmapSlices(lead_times, batch_size_per_device, num_times,
                     0 - unroll_offset, 1),
          <<batch_size_per_device * Len(lead_times), 1>>)

\* lines 280-284, 292-293: u_tgt_batch
UTgtBatch(lead_times, batch_size_per_device, num_times, direct_steps) ==
  reshape(VmapSlices(lead_times, batch_size_per_device, num_times,
                     1, direct_steps),
          <<batch_size_per_device * Len(lead_times), direct_steps>>)

\* lines 285-287, 294-295: specs_batch
SpecsBatch(num_lead_times, batch_size_per_device, spec_dim) ==
  reshape(RepeatSpecs(num_lead_times, batch_size_per_device, spec_dim),
          <<batch_size_per_device * num_lead_times, spec_dim>>)

\* a train() whose assertions have passed, with its constants of lines
\* 118-143, before a batch is sliced
InitSlices ==
  /\ MainIdle
  /\ FLAGS = <<>>
  /\ TrainIdle
  /\ rerun = <<>>
  /\ nrm = <<>>
  /\ DsIdle
  /\ PrdIdle
  /\ DownIdle
  /\ BatIdle
  /\ \E jump_steps \in 1..MaxJumpSteps, direct_steps \in 1..MaxTrainDirect,
        unroll_steps \in 0..MaxTrainUnroll,
        len_traj \in {MaxLenTraj - 1, MaxLenTraj},
        batch_size \in 1..MaxBatchSize, num_devices \in 1..MaxDevices,
        spec_dim \in 1..MaxSpecDim :
       /\ TrainAsserts(jump_steps, direct_steps, unroll_steps, len_traj,
                       batch_size, batch_size, num_devices)
       /\ slc = [pc |-> "train",
                 direct_steps |-> direct_steps,
                 unroll_offset |-> UnrollOffset(unroll_steps, direct_steps),
                 num_times |-> NumTimes(len_traj, jump_steps),
                 batch_size_per_device |->
                   (jump_steps * batch_size) \div num_devices,
                 spec_dim |-> spec_dim,
                 lead_times |-> <<>>,
                 u_inp |-> <<>>,
                 u_tgt |-> <<>>,
                 specs |-> <<>>]

\* _train_one_batch, lines 273-295: the pairs of all lead times, flattened
\* along the batch axis
SliceTrainBatch ==
  /\ slc # <<>>
  /\ slc.pc = "train"
  /\ LET lead_times == ArangeFrom(slc.unroll_offset,
                                  slc.num_times - slc.direct_steps)
     IN  slc' = [slc EXCEPT
           !.pc = "_train_one_batch",
           !.lead_times = lead_times,
           !.u_inp = ULagBatch(lead_times, slc.batch_size_per_device,
                               slc.num_times, slc.unroll_offset),
           !.u_tgt = UTgtBatch(lead_times, slc.batch_size_per_device,
                               slc.num_times, slc.direct_steps),
           !.specs = SpecsBatch(Len(lead_times), slc.batch_size_per_device,
                                slc.spec_dim)]
  /\ UNCHANGED <<mainVars, trainVars, rerun, nrm, dsVars, prd, down, bat>>

\* _evaluate_direct_prediction, lines 425-443: the pairs of all lead times
SliceEvalBatch ==
  /\ slc # <<>>
  /\ slc.pc = "train"
  /\ LET lead_times == Arange(slc.num_times - slc.direct_steps)
     IN  slc' = [slc EXCEPT
           !.pc = "_evaluate_direct_prediction",
           !.lead_times = lead_times,
           !.u_inp = VmapSlices(lead_times, slc.batch_size_per_device,
                                slc.num_times, 0, 1),
           !.u_tgt = VmapSlices(lead_times, slc.batch_size_per_device,
                                slc.num_times, 1, slc.direct_steps),
           !.specs = RepeatSpecs(Len(lead_times), slc.batch_size_per_device,
                                 slc.spec_dim)]
  /\ UNCHANGED <<mainVars, trainVars, rerun, nrm, dsVars, prd, down, bat>>

NextSlices ==
  \/ SliceTrainBatch
  \/ SliceEvalBatch

SpecSlices == InitSlices /\ [][NextSlices]_vars

\* ------------------------------------------ Dataset.batches (dataset.py)
\*
\* batches(mode, batch_size, key) is a generator: its assertions run when the
\* first batch is asked for, and every batch is fetched when it is asked for.

\* what _fetch_mode(idx, mode) is asked for and the global indices it passes
\* to _fetch
FetchedBatch(idx_mode, idx) ==
  [idx |-> idx, global |-> {idx_mode[idx[k] + 1] : k \in 1..Len(idx)}]

\* a call batches(mode, batch_size, key) on a split of n samples with the
\* global indices idx_mode; shuffled says whether a key is given, and key
\* is then jax.random.permutation(key, np.arange(n)), any permutation
InitBatches ==
  /\ MainIdle
  /\ FLAGS = <<>>
  /\ TrainIdle
  /\ rerun = <<>>
  /\ nrm = <<>>
  /\ DsIdle
  /\ PrdIdle
  /\ DownIdle
  /\ SlcIdle
  /\ \E n \in 0..MaxModeSamples, batch_size \in 0..MaxBatchSize,
        shuffled \in BOOLEAN :
       \E idx_mode \in Permutations0(n) \cup {ArangeFrom(1, n + 1)},
          key \in IF shuffled THEN Permutations0(n) ELSE {<<>>} :
         bat = [n |-> n,
                idx_mode |-> idx_mode,
                batch_size |-> batch_size,
                shuffled |-> shuffled,
                key |-> key,
                pc |-> "called",
                _idx_mode_permuted |-> <<>>,
                yielded |-> <<>>]

\* lines 417-423: the assertions and the order of the indices
StartBatches ==
  /\ bat # <<>>
  /\ bat.pc = "called"
  /\ bat' = IF BatchesAsserts(bat.n, bat.batch_size)
            THEN [bat EXCEPT
                    !.pc = "yielding",
                    !._idx_mode_permuted =
                       IF bat.shuffled THEN bat.key ELSE Arange(bat.n)]
            ELSE [bat EXCEPT !.pc = "AssertionError"]
  /\ UNCHANGED <<mainVars, trainVars, rerun, nrm, dsVars, prd, down, slc>>

\* lines 425-433: the next batch is fetched and yielded
YieldBatch ==
  /\ bat # <<>>
  /\ bat.pc = "yielding"
  /\ LET all == Batches(bat.n, bat.batch_size, bat._idx_mode_permuted)
         k == Len(bat.yielded) + 1
     IN  /\ k <= Len(all)
         /\ bat' = [bat EXCEPT
                      !.yielded = Append(@, FetchedBatch(bat.idx_mode, all[k]))]
  /\ UNCHANGED <<mainVars, trainVars, rerun, nrm, dsVars, prd, down, slc>>

\* the generator is exhausted
StopBatches ==
  /\ bat # <<>>
  /\ bat.pc = "yielding"
  /\ Len(bat.yielded)
       = Len(Batches(bat.n, bat.batch_size, bat._idx_mode_permuted))
  /\ bat' = [bat EXCEPT !.pc = "exhausted"]
  /\ UNCHANGED <<mainVars, trainVars, rerun, nrm, dsVars, prd, down, slc>>

NextBatches ==
  \/ StartBatches
  \/ YieldBatch
  \/ StopBatches

SpecBatches == InitBatches /\ [][NextBatches]_vars

\* ------------------------------------------------------- claims on main()

CallEpochs == [i \in 1..Len(calls) |-> calls[i].epochs]

\* C1: the epoch counts main() passes to its successive train() invocations
\* never exceed FLAGS.epochs in total, each invocation is told the epochs
\* trained before it, and when main() has run its last sub-phase the counts
\* of the direct_steps + unroll_steps invocations sum to exactly FLAGS.epochs,
\* which is then the value of epochs_trained.
C1_EpochsSumToTotal ==
  /\ SumSeq(CallEpochs) <= FLAGS.epochs
  /\ \A i \in 1..Len(calls) :
       /\ calls[i].epochs >= 0
       /\ calls[i].epochs_before = SumSeq(SubSeq(CallEpochs, 1, i - 1))
  /\ pc = "done" =>
       /\ Len(calls) = FLAGS.direct_steps + FLAGS.unroll_steps
       /\ SumSeq(CallEpochs) = FLAGS.epochs
       /\ epochs_trained = FLAGS.epochs

C1_Witness ==
  /\ pc = "done"
  /\ FLAGS.direct_steps >= 2
  /\ FLAGS.unroll_steps >= 2
  /\ epochs_u00_dff > epochs_u00_dxx
  /\ epochs_uff > epochs_uxx

\* C2: the i-th train() invocation of main() is sub-phase (i, 0) for
\* i <= direct_steps and (direct_steps, i - direct_steps) after: direct_steps
\* never decreases, every invocation with unroll_steps = 0 precedes every
\* invocation with unroll_steps >= 1, and every unroll sub-phase runs at the
\* configured maximum direct_steps.
C2_SubphaseOrder ==
  /\ Len(calls) <= FLAGS.direct_steps + FLAGS.unroll_steps
  /\ \A i \in 1..Len(calls) :
       /\ calls[i].direct_steps = Min(i, FLAGS.direct_steps)
       /\ calls[i].unroll_steps =
            (IF i <= FLAGS.direct_steps THEN 0 ELSE i - FLAGS.direct_steps)
  /\ \A i, j \in 1..Len(calls) :
       i < j =>
         /\ calls[i].direct_steps <= calls[j].direct_steps
         /\ calls[j].unroll_steps = 0 => calls[i].unroll_steps = 0
  /\ pc = "done" => Len(calls) = FLAGS.direct_steps + FLAGS.unroll_steps

C2_Witness ==
  /\ pc = "done"
  /\ FLAGS.direct_steps >= 2
  /\ FLAGS.unroll_steps >= 2
  /\ Len(calls) = FLAGS.direct_steps + FLAGS.unroll_steps

\* C3: direct sub-phase d < D receives floor(epochs_u00 / D) epochs and
\* sub-phase D receives floor(epochs_u00 / D) + (epochs_u00 mod D); for D = 1
\* the one sub-phase receives all of epochs_u00; the last direct sub-phase
\* never receives fewer epochs than another.
C3_DirectSplit ==
  \A i \in 1..Len(calls) :
    i <= FLAGS.direct_steps =>
      /\ calls[i].epochs =
           (epochs_u00 \div FLAGS.direct_steps)
           + (IF i = FLAGS.direct_steps
              THEN epochs_u00 % FLAGS.direct_steps ELSE 0)
      /\ FLAGS.direct_steps = 1 => calls[i].epochs = epochs_u00
      /\ Len(calls) >= FLAGS.direct_steps =>
           calls[FLAGS.direct_steps].epochs >= calls[i].epochs

C3_Witness ==
  /\ Len(calls) >= FLAGS.direct_steps
  /\ FLAGS.direct_steps >= 3
  /\ epochs_u00 % FLAGS.direct_steps = 2
  /\ calls[FLAGS.direct_steps].epochs = calls[1].epochs + 2

\* C4: for unroll_steps = U >= 1 the remaining budget
\* R = FLAGS.epochs - epochs_u00 is non-negative, unroll sub-phase u < U
\* receives floor(R / U) epochs and sub-phase U receives
\* floor(R / U) + (R mod U), each at the configured maximum direct_steps.
C4_UnrollSplit ==
  (FLAGS.unroll_steps >= 1 /\ pc # "split") =>
    LET R == FLAGS.epochs - epochs_u00
        D == FLAGS.direct_steps
        U == FLAGS.unroll_steps
    IN /\ R >= 0
       /\ \A i \in 1..Len(calls) :
            i > D =>
              /\ calls[i].direct_steps = D
              /\ calls[i].epochs =
                   (R \div U) + (IF i = D + U THEN R % U ELSE 0)

C4_Witness ==
  /\ pc = "done"
  /\ FLAGS.unroll_steps >= 3
  /\ (FLAGS.epochs - epochs_u00) % FLAGS.unroll_steps >= 1
  /\ (FLAGS.epochs - epochs_u00) \div FLAGS.unroll_steps >= 1

\* C5: epochs_u00 equals floor(FLAGS.epochs / (1 + 0.2 * unroll_steps)), that
\* is floor(5 * FLAGS.epochs / (5 + unroll_steps)), for every FLAGS.epochs >= 0
\* and unroll_steps >= 0.  (Violated: 1 + .2 * 3 is a binary64 just above
\* 1.6, so 8 // 1.6 is 4 where the floor of 40 / 8 is 5.)
C5_EpochsU00IsExactFloor ==
  pc # "split" =>
    epochs_u00 = (5 * FLAGS.epochs) \div (5 + FLAGS.unroll_steps)

\* C6: with unroll_steps = 0 no train() invocation has unroll_steps >= 1,
\* the direct-only phase is given all FLAGS.epochs epochs, and once its last
\* sub-phase has returned epochs_trained is FLAGS.epochs.
C6_NoUnrollPhase ==
  FLAGS.unroll_steps = 0 =>
    /\ \A i \in 1..Len(calls) : calls[i].unroll_steps = 0
    /\ Len(calls) <= FLAGS.direct_steps
    /\ pc # "split" => epochs_u00 = FLAGS.epochs
    /\ (pc # "split" /\ _d > FLAGS.direct_steps) =>
         /\ epochs_trained = FLAGS.epochs
         /\ SumSeq(CallEpochs) = FLAGS.epochs

C6_Witness ==
  /\ pc = "done"
  /\ FLAGS.unroll_steps = 0
  /\ FLAGS.direct_steps >= 2
  /\ FLAGS.epochs >= 1
  /\ Len(calls) = FLAGS.direct_steps


\* ------------------------------------------------------ claims on train()

\* the numerator of the weights of the batches trained so far in the epoch
RECURSIVE SumWeights(_)
SumWeights(log) ==
  IF log = <<>> THEN 0 ELSE Head(log).weight.num + SumWeights(Tail(log))

\* the losses of the batches trained so far, each counted once per sample
RECURSIVE SumSampleLosses(_)
SumSampleLosses(log) ==
  IF log = <<>> THEN 0
  ELSE Head(log).loss * Len(Head(log).batch) + SumSampleLosses(Tail(log))

\* C7: in every batch update, noise_steps and grads_steps are integers of
\* 0..unroll_steps whose sum is exactly unroll_steps; the jump without
\* gradients runs noise_steps steps and the jump inside the loss grads_steps.
C7_NoiseAndGradsSplitUnroll ==
  \A i \in 1..Len(batch_log) :
    LET r == batch_log[i]
    IN /\ r.noise_steps \in 0..args.unroll_steps
       /\ r.grads_steps \in 0..args.unroll_steps
       /\ r.noise_steps + r.grads_steps = args.unroll_steps
       /\ r.jumps_without_grads = r.noise_steps
       /\ r.jumps_with_grads = r.grads_steps

\* an update with unroll_steps = 2 split into one step of each kind
C7_Witness ==
  /\ args.unroll_steps = 2
  /\ \E i \in 1..Len(batch_log) :
       batch_log[i].noise_steps = 1 /\ batch_log[i].grads_steps = 1

\* C8: with unroll_steps >= 1 the split is drawn anew for each training
\* step: every executed batch update uses a noise_steps drawn from
\* 0..unroll_steps when that update executes.
C8_DrawnAnewEachUpdate ==
  args.unroll_steps >= 1 =>
    \A i \in 1..Len(batch_log) :
      /\ batch_log[i].noise_steps \in 0..args.unroll_steps
      /\ batch_log[i].drawn_in = batch_log[i].update

\* C9: the lead times train() uses are exactly unroll_offset ..
\* num_times - direct_steps - 1, num_times - unroll_offset - direct_steps of
\* them; train() aborts when that count is not positive; with len_traj = 11,
\* jump_steps = 1, direct_steps = 2, unroll_steps = 0 they are 0..7, 8
\* entries; no update uses another lead time, and every slice it takes at a
\* lead time lies inside the trajectory.
C9_LeadTimes ==
  LET num_times == (dataset.len_traj - 1) \div args.jump_steps
      unroll_offset == args.unroll_steps * args.direct_steps
      count == num_times - unroll_offset - args.direct_steps
  IN /\ locals # <<>> =>
          /\ locals.lead_times =
               {lt \in 0..dataset.len_traj :
                  unroll_offset <= lt /\ lt <= num_times - args.direct_steps - 1}
          /\ Cardinality(locals.lead_times) = count
          /\ count > 0
     /\ count <= 0 =>
          /\ tpc \in {"enter", "aborted"}
          /\ locals = <<>>
          /\ num_updates = 0
     /\ ( /\ locals # <<>>
          /\ dataset.len_traj = 11
          /\ args.jump_steps = 1
          /\ args.direct_steps = 2
          /\ args.unroll_steps = 0 ) =>
          /\ locals.lead_times = 0..7
          /\ Cardinality(locals.lead_times) = 8
     /\ \A i \in 1..Len(batch_log) :
          /\ batch_log[i].lead_times = locals.lead_times
          /\ \A lt \in batch_log[i].lead_times :
               /\ lt - unroll_offset >= 0
               /\ lt + args.direct_steps <= num_times - 1

\* the example of the claim, after an update
C9_Witness ==
  /\ dataset.len_traj = 11
  /\ args.jump_steps = 1
  /\ args.direct_steps = 2
  /\ args.unroll_steps = 0
  /\ num_updates >= 1
  /\ batch_log # <<>>
  /\ batch_log[1].lead_times = 0..7

\* C10: when train_one_epoch returns, it has processed num_samples_trn /
\* batch_size batches, each weighted by batch_size / num_samples_trn; the
\* weights sum to 1, and the epoch loss is the mean over the samples of the
\* loss of the batch each sample is in.  loss_epoch and the weights are
\* fractions of the denominator num_samples_trn.
C10_EpochLossIsSampleWeightedMean ==
  tpc = "epoch_trained" =>
    /\ Len(batch_log) * FLAGS.batch_size = locals.num_samples_trn
    /\ Len(batch_log) = locals.num_batches
    /\ \A i \in 1..Len(batch_log) :
         /\ batch_log[i].weight.num = FLAGS.batch_size
         /\ batch_log[i].weight.den = locals.num_samples_trn
    /\ SumWeights(batch_log) = locals.num_samples_trn
    /\ loss_epoch = SumSampleLosses(batch_log)
    /\ \A x \in 0..(locals.num_samples_trn - 1) :
         Cardinality({i \in 1..Len(batch_log) :
           \E k \in 1..Len(batch_log[i].batch) : batch_log[i].batch[k] = x}) = 1

\* an epoch of two batches with different losses
C10_Witness ==
  /\ tpc = "epoch_trained"
  /\ Len(batch_log) = 2
  /\ batch_log[1].loss # batch_log[2].loss
  /\ loss_epoch = 1


\* ------------------------------------- claims on the order of the batches

\* both runs of train_one_epoch() have returned
BothRunsReturned == tpc = "epoch_trained" /\ rerun.first # <<>>

\* the loss the first run found for the batch b
FirstLossOf(b) ==
  LET i == CHOOSE j \in 1..Len(rerun.first.log) : rerun.first.log[j].batch = b
  IN rerun.first.log[i].loss

\* C11 as stated: the same batches in two orders, from the same state, give
\* the same epoch loss.
C11_SameLossInAnyOrder ==
  BothRunsReturned => loss_epoch = rerun.first.loss_epoch

\* C11 as amended: the epoch loss is a symmetric function of the losses of
\* the batches: two orders in which every batch has the same loss give the
\* same epoch loss.
C11_SameLossWhenBatchLossesAgree ==
  ( /\ BothRunsReturned
    /\ \A i \in 1..Len(batch_log) :
         batch_log[i].loss = FirstLossOf(batch_log[i].batch) )
  => loss_epoch = rerun.first.loss_epoch

\* two orders of two batches whose losses differ from each other and agree
\* between the runs
C11_Witness ==
  /\ BothRunsReturned
  /\ Len(batch_log) = 2
  /\ batch_log[1].batch = rerun.first.log[2].batch
  /\ batch_log[2].batch = rerun.first.log[1].batch
  /\ batch_log[1].batch # batch_log[2].batch
  /\ batch_log[1].loss # batch_log[2].loss
  /\ batch_log[1].loss = rerun.first.log[2].loss
  /\ batch_log[2].loss = rerun.first.log[1].loss


\* -------------------------------------------- claims on the training state

\* C12: the training state has one writer.  Only a batch of train_one_epoch
\* changes it, by exactly one state.apply_gradients (one step), applied
\* after the gradients and the loss were averaged over the devices; an epoch
\* makes exactly num_batches updates; evaluate() and every other step of
\* train() leave the state as it is.
C12_OneWriter ==
  /\ [](\A i \in 1..Len(batch_log) :
          LET ops == batch_log[i].ops
          IN /\ Count(ops, "apply_gradients") = 1
             /\ \A j, k \in 1..Len(ops) :
                  (ops[j] = "apply_gradients" /\ ops[k] # "apply_gradients")
                  => k < j)
  /\ [](tpc = "epoch_trained" =>
          /\ Len(batch_log) = locals.num_batches
          /\ state.step = batch_log[1].step_before + locals.num_batches)
  /\ [][ /\ state' # state =>
              /\ tpc = "train_one_epoch"
              /\ Len(batch_log') = Len(batch_log) + 1
              /\ state'.step = state.step + 1
              /\ num_updates' = num_updates + 1
         /\ Len(batch_log') = Len(batch_log) + 1 => state'.step = state.step + 1
         /\ tpc \in {"evaluate_before", "epoch_trained"} => state' = state
       ]_vars

\* an epoch of two batches on two devices has been trained, after the
\* evaluations before it
C12_Witness ==
  /\ tpc = "epoch_trained"
  /\ epoch = 1
  /\ NUM_DEVICES = 2
  /\ Len(batch_log) = 2
  /\ num_evaluated > 0
  /\ state.step = batch_log[1].step_before + 2


\* C13: when FLAGS.batch_size does not divide the number of samples of the
\* training or of the validation split, train() aborts before any batch is
\* fetched, evaluated or trained, and it never returns.
C13_IndivisibleAbortsEagerly ==
  ( \/ dataset.nums.train % FLAGS.batch_size # 0
    \/ dataset.nums.valid % FLAGS.batch_size # 0 )
  => /\ num_fetched = 0
     /\ num_evaluated = 0
     /\ num_updates = 0
     /\ tpc \in {"enter", "evaluate_before", "aborted"}


\* ------------------------------------- claims on the state main() hands on

\* C14: the unroll phase starts from a state that main() creates anew: the
\* parameters are those the last direct sub-phase returned, the optimizer
\* state is fresh (step 0) and the learning rate is lr * lr_decay.  Between
\* two consecutive sub-phases of one phase, the state train() returned is
\* the state the next train() is given.
C14_StateHandedOn ==
  LET D == FLAGS.direct_steps
      returned(i) == Trained(calls[i].state, i, calls[i].epochs)
      fresh ==
        [params |-> returned(D).params, opt_state |-> <<>>, step |-> 0,
         tx |-> [learning_rate |-> FLAGS.lr_decay]]
  IN /\ (pc \in {"unroll", "done"} /\ Len(calls) = D) => main_state = fresh
     /\ \A i \in 1..(Len(calls) - 1) :
          IF i = D
          THEN calls[i + 1].state = fresh
          ELSE calls[i + 1].state = returned(i)
     /\ (Len(calls) >= 1 /\ (pc = "direct" \/ (pc = "done" /\ Len(calls) > D))) =>
          main_state = returned(Len(calls))

\* a run of two direct and two unroll sub-phases, each of which has trained
C14_Witness ==
  /\ pc = "done"
  /\ FLAGS.direct_steps = 2
  /\ FLAGS.unroll_steps = 2
  /\ \A i \in 1..4 : calls[i].epochs >= 1
  /\ calls[3].state.params = <<1, 2>>
  /\ calls[3].state.opt_state = <<>>
  /\ main_state.params = <<1, 2, 3, 4>>
  /\ main_state.opt_state = <<3, 4>>


\* ------------------------------------------- claims on the direct horizons

\* C15: every batch update computes the loss once for each ndt of J, 2J, ...,
\* D*J; the loss for ndt = k*J has the trajectory entry lead_time + k as its
\* target; the D horizons weigh 1/D each and the num_lead_times chunks
\* 1/num_lead_times each; the direct prediction of evaluate() goes through
\* the same ndt values in the same order.
C15_DirectHorizons ==
  LET D == args.direct_steps
      J == args.jump_steps
  IN /\ \A n \in 1..Len(batch_log) :
          LET b == batch_log[n]
          IN /\ Len(b.ndt_batch) = D
             /\ {b.ndt_batch[i] : i \in 1..D} = {k * J : k \in 1..D}
             /\ \A i \in 1..D :
                  /\ b.ndt_batch[i] > 0
                  /\ b.ndt_batch[i] % J = 0
                  /\ \A lt \in b.lead_times :
                       b.u_tgt[lt][i] = lt + (b.ndt_batch[i] \div J)
             /\ b.direct_step_weight.num * D = b.direct_step_weight.den
             /\ b.lead_time_weight.num * Cardinality(b.lead_times)
                  = b.lead_time_weight.den
             /\ ndt_evaluated = b.ndt_batch
     /\ (num_evaluated > 0 /\ tpc # "aborted") =>
          /\ Len(ndt_evaluated) = D
          /\ \A k \in 1..D : ndt_evaluated[k] = k * J

\* an update with two horizons of two steps each, after an evaluation
C15_Witness ==
  /\ batch_log # <<>>
  /\ args.direct_steps = 2
  /\ args.jump_steps = 2
  /\ batch_log[1].ndt_batch = <<2, 4>>
  /\ ndt_evaluated = <<2, 4>>
  /\ \E lt \in batch_log[1].lead_times :
       lt > 0 /\ batch_log[1].u_tgt[lt] = <<lt + 1, lt + 2>>


\* ---------------------------------------------- claims on the normalization

\* C16: normalize never divides by zero: where scale is 0 the result is
\* arr - shift, elsewhere it is (arr - shift) / scale; every entry of the
\* result is a finite number.
C16_NoDivisionByZero ==
  (nrm # <<>> /\ nrm.pc = "normalized") =>
    \A i \in DOMAIN nrm.arr :
      LET diff == FloatSub32(nrm.arr[i], nrm.shift[i])
      IN /\ nrm.out[i].cls = "finite"
         /\ nrm.scale[i].m = 0 => nrm.out[i] = diff
         /\ nrm.scale[i].m # 0 =>
              nrm.out[i] = FloatDiv32(diff, nrm.scale[i])

\* a scale of zero next to one that is not
C16_Witness ==
  /\ nrm # <<>>
  /\ nrm.pc = "normalized"
  /\ Len(nrm.arr) = 2
  /\ nrm.scale = <<Zero, Float(3, 0)>>
  /\ nrm.arr = <<Float(5, 0), One>>
  /\ nrm.shift = <<One, Zero>>
  /\ nrm.out[1] = Float(4, 0)
  /\ nrm.out[2] = Float(11184811, -25)


\* n / 2^k, rounded down
RECURSIVE FloorShift(_, _)
FloorShift(n, k) == IF k = 0 \/ n = 0 THEN n ELSE FloorShift(n \div 2, k - 1)

\* n / 2^k, rounded up
RECURSIVE CeilShift(_, _)
CeilShift(n, k) == IF k = 0 \/ n <= 1 THEN n ELSE CeilShift((n + 1) \div 2, k - 1)

\* a.m * 2^a.e <= b.m * 2^b.e, for a.m >= 0 and b.m >= 0
DyadicLeq(a, b) ==
  IF a.e >= b.e
  THEN a.m <= FloorShift(b.m, a.e - b.e)
  ELSE CeilShift(a.m, b.e - a.e) <= b.m

\* |z - x| <= 2^-21 * (|x| + |mean / std|), both sides multiplied by |std|
WithinTolerance(z, x, mean, std) ==
  LET e == IF z.e <= x.e THEN z.e ELSE x.e
      err == [m |-> Abs(Align(z, e) - Align(x, e)) * Abs(std.m),
              e |-> e + std.e + 21]
      xs == [m |-> Abs(x.m) * Abs(std.m), e |-> x.e + std.e]
      f == IF xs.e <= mean.e THEN xs.e ELSE mean.e
      sum == [m |-> Align(xs, f) + Align([m |-> Abs(mean.m), e |-> mean.e], f),
              e |-> f]
  IN DyadicLeq(err, sum)

\* normalize with mean 0 and std 1 returns its argument
IdentityAtZeroOne ==
  (/\ nrm # <<>>
   /\ nrm.pc = "normalized"
   /\ \A i \in DOMAIN nrm.arr : nrm.shift[i] = Zero /\ nrm.scale[i] = One)
  => nrm.out = nrm.arr

\* C17 as stated: for std # 0, normalize(unnormalize(x, mean, std), mean, std)
\* is x; with mean 0 and std 1 normalize is the identity.
C17_RoundTripIsExact ==
  /\ (nrm # <<>> /\ nrm.pc = "back") =>
       \A i \in DOMAIN nrm.arr :
         nrm.scale[i] # Zero => nrm.back[i] = nrm.arr[i]
  /\ IdentityAtZeroOne

\* C17, amended: for std # 0, normalize(unnormalize(x, mean, std), mean, std)
\* is x within the tolerance of float32 arithmetic: it differs from x by at
\* most 2^-21 * (|x| + |mean / std|); with mean 0 and std 1 normalize is the
\* identity.
C17_RoundTripWithinTolerance ==
  /\ (nrm # <<>> /\ nrm.pc = "back") =>
       \A i \in DOMAIN nrm.arr :
         nrm.scale[i] # Zero =>
           /\ nrm.back[i].cls = "finite"
           /\ WithinTolerance(nrm.back[i], nrm.arr[i], nrm.shift[i],
                              nrm.scale[i])
  /\ IdentityAtZeroOne

\* 1 + 2^-23 comes back as 1 with mean 1 and std 1, and 5 as 5 with mean -1.5
\* and std 3
C17_Witness ==
  /\ nrm # <<>>
  /\ nrm.pc = "back"
  /\ nrm.arr = <<Float(8388609, -23), Float(5, 0)>>
  /\ nrm.shift = <<One, Float(-3, -1)>>
  /\ nrm.scale = <<One, Float(3, 0)>>
  /\ nrm.out[1] = Float(2, 0)
  /\ nrm.back[1] = One
  /\ nrm.out[2] = Float(27, -1)
  /\ nrm.back[2] = Float(5, 0)

\* ------------------------------------------------- claims on the dataset

StatsSamples(d) ==
  UNION {d.stats[k].samples : k \in {j \in {"trj", "res", "der"} :
                                       d.stats[j] # NoStats}}

\* C19: compute_stats computes the trajectory, residual and derivative
\* statistics from the samples of the training split only, so that no sample
\* that the validation or the test split serves is among the samples the
\* statistics were computed from.
C19_StatsFromTrainingSplitOnly ==
  ds # <<>> =>
    /\ \A k \in {"trj", "res", "der"} :
         ds.stats[k] # NoStats => ds.stats[k].samples = Served(ds, "train")
    /\ StatsSamples(ds) \cap (Served(ds, "valid") \cup Served(ds, "test")) = {}

\* the global indices of a split
GlobalIndices(d, mode) ==
  {d.idx_modes[mode][k] : k \in 1..Len(d.idx_modes[mode])}

\* C25: the global indices of the three splits are pairwise disjoint: those
\* of train are a permutation of 0..n_train-1, those of valid are n_train ..
\* n_train + n_valid - 1 and those of test the last n_test ones of the
\* dataset; an index of train(), valid() or test() that is not below the size
\* of the split is rejected, and one below it is fetched from the split.
C25_SplitsDisjoint ==
  ds # <<>> =>
    LET n_train == ds.nums.train
        n_valid == ds.nums.valid
        n_test == ds.nums.test
    IN  /\ n_train + n_valid + n_test <= ds.length
        /\ Len(ds.idx_modes.train) = n_train
        /\ GlobalIndices(ds, "train") = 0..(n_train - 1)
        /\ ds.idx_modes.valid = [k \in 1..n_valid |-> n_train + k - 1]
        /\ ds.idx_modes.test = [k \in 1..n_test |-> ds.length - n_test + k - 1]
        /\ \A m1, m2 \in {"train", "valid", "test"} :
             m1 # m2 => GlobalIndices(ds, m1) \cap GlobalIndices(ds, m2) = {}
        /\ ds.op = "_fetch_mode: AssertionError" =>
             /\ ds.read = {}
             /\ \E mode \in {"train", "valid", "test"} :
                  \A i \in ds.idx : i >= ds.nums[mode]
        /\ ds.op \in {"train", "valid", "test"} =>
             /\ \A i \in ds.idx : i < ds.nums[ds.op]
             /\ ds.read = _fetch(ds, {ds.idx_modes[ds.op][i + 1] : i \in ds.idx})

\* a dataset of one training, one validation and one test sample whose
\* test(1) has been rejected
C25_Witness ==
  /\ ds # <<>>
  /\ ds.nums = [train |-> 1, valid |-> 1, test |-> 1]
  /\ ds.idx_modes = [train |-> <<0>>, valid |-> <<1>>, test |-> <<2>>]
  /\ ds.op = "_fetch_mode: AssertionError"
  /\ ds.idx = {1}

\* C19, second part: once compute_stats has set the statistics, no other
\* operation of Dataset changes them.
C19_StatsWrittenByComputeStatsOnly ==
  [][(ds # <<>> /\ ds'.stats # ds.stats) => ds'.op \in {"compute_stats", "compute_stats: ValueError"}]_vars

\* ----------------------------------------------- claims on the predictor

\* both unroll and jump have returned
BothReturned == prd # <<>> /\ prd.unrolled # <<>> /\ prd.jumped # Unbound

Updaters == {main_state.params[j] : j \in 1..Len(main_state.params)}

\* C21: the steps saved by the successive train() invocations are 1, 2, ...
\* in this order, each once, as many as epochs were trained and FLAGS.epochs
\* of them when main() has run all its sub-phases; an invocation saves one
\* step per epoch, and one with 0 epochs saves nothing and updates no
\* parameter.
C21_StepsSavedOnceInOrder ==
  pc \in {"direct", "unroll", "done", "failed"} =>
    /\ \A k \in 1..Len(saved) : saved[k].step = k
    /\ Len(saved) = epochs_trained
    /\ pc = "done" => Len(saved) = FLAGS.epochs
    /\ \A k \in 1..(Len(saved) - 1) : saved[k].call <= saved[k + 1].call
    /\ \A i \in 1..Len(calls) :
         /\ Cardinality({k \in 1..Len(saved) : saved[k].call = i})
              \in {0, calls[i].epochs}
         /\ calls[i].epochs = 0 =>
              /\ \A k \in 1..Len(saved) : saved[k].call # i
              /\ i \notin Updaters

\* two direct sub-phases of 0 epochs, then one of 2 epochs that saves the
\* steps 1 and 2
C21_Witness ==
  /\ pc = "done"
  /\ Len(calls) = 3
  /\ calls[1].epochs = 0
  /\ calls[2].epochs = 0
  /\ calls[3].epochs = 2
  /\ Len(saved) = 2
  /\ saved[1] = [step |-> 1, call |-> 3]
  /\ saved[2] = [step |-> 2, call |-> 3]
  /\ Updaters = {3}

\* C26: with lr_decay unset, main() raises no error: it does not fail, unless
\* an assertion of train() rejects the arguments of its last invocation.
C26_UnsetLrDecayCompletes ==
  (FLAGS.lr_decay = None /\ pc = "failed") =>
    /\ Len(calls) >= 1
    /\ ~TrainAccepts(FLAGS.jump_steps, calls[Len(calls)].direct_steps,
                     calls[Len(calls)].unroll_steps)

\* -------------------------------------------- claims on the downsampling

\* the places of the downsampled trajectories that hold time step t of sample b
PlacesOf(b, t) ==
  {q \in 1..Len(down.trajs.flat) :
     down.trajs.flat[q] = [sample |-> b, time |-> t]}

\* C22: a batch of B trajectories of length L becomes B * J trajectories of
\* length (L - 1) / J; row j * B + b holds the time steps j, j + J, ... of
\* sample b; each of the first L - 1 time steps of each sample is there once
\* and the last one is not; row j * B + b of the specs is the specs of b.
C22_DownsampledRows ==
  (down # <<>> /\ down.pc = "downsampled") =>
    LET B == down.batch_size
        J == down.jump_steps
        L == down.len_traj
    IN  /\ down.trajs.shape = <<B * J, (L - 1) \div J>>
        /\ \A j \in 0..(J - 1), b \in 0..(B - 1), i \in 0..((L - 1) \div J - 1) :
             At2(down.trajs, j * B + b, i) = [sample |-> b, time |-> j + i * J]
        /\ \A b \in 0..(B - 1) :
             /\ \A t \in 0..(L - 2) : Cardinality(PlacesOf(b, t)) = 1
             /\ PlacesOf(b, L - 1) = {}
        /\ down._use_specs =>
             /\ down.specs.shape[1] = B * J
             /\ \A j \in 0..(J - 1), b \in 0..(B - 1),
                   c \in 0..(down.specs.shape[2] - 1) :
                  At2(down.specs, j * B + b, c) = [sample |-> b, entry |-> c]

\* two samples of five steps at jump_steps = 2: row 3 holds the steps 1 and
\* 3 of sample 1, with the specs of sample 1
C22_Witness ==
  /\ down # <<>>
  /\ down.pc = "downsampled"
  /\ down.batch_size = 2
  /\ down.jump_steps = 2
  /\ down.len_traj = 5
  /\ down._use_specs
  /\ down.specs.shape = <<4, 2>>
  /\ At2(down.trajs, 3, 0) = [sample |-> 1, time |-> 1]
  /\ At2(down.trajs, 3, 1) = [sample |-> 1, time |-> 3]
  /\ At2(down.specs, 3, 1) = [sample |-> 1, entry |-> 1]

\* ------------------------------------ claims on the input/target pairs

\* the entries of the three sliced arrays of slc, as rows: the arrays of
\* _evaluate_direct_prediction are indexed by lead time and sample, which is
\* the row of the same entry after flattening
RowsOf(a) == reshape(a, <<Len(a.flat) \div a.shape[Len(a.shape)],
                          a.shape[Len(a.shape)]>>)

\* C23: every input slice starts at lead_time - unroll_offset (training) or
\* at lead_time (evaluation), every target window is lead_time + 1 ..
\* lead_time + direct_steps, all inside 0..num_times - 1, so that no slice is
\* clamped; row r of the inputs, of the targets and of the specs is of the
\* same sample and the same lead time.
C23_SlicesInRangeAndAligned ==
  (slc # <<>> /\ slc.pc # "train") =>
    LET offset == IF slc.pc = "_train_one_batch" THEN slc.unroll_offset ELSE 0
        u_inp == RowsOf(slc.u_inp)
        u_tgt == RowsOf(slc.u_tgt)
        specs == RowsOf(slc.specs)
        rows == slc.batch_size_per_device * Len(slc.lead_times)
    IN  /\ Len(slc.lead_times) >= 1
        /\ u_inp.shape = <<rows, 1>>
        /\ u_tgt.shape = <<rows, slc.direct_steps>>
        /\ specs.shape = <<rows, slc.spec_dim>>
        /\ \A r \in 0..(rows - 1) :
             LET inp == At2(u_inp, r, 0)
             IN  /\ inp.time = inp.lt - offset
                 /\ inp.time \in 0..(slc.num_times - 1)
                 /\ inp.lt = slc.lead_times[r \div slc.batch_size_per_device + 1]
                 /\ inp.sample = r % slc.batch_size_per_device
                 /\ \A i \in 0..(slc.direct_steps - 1) :
                      /\ At2(u_tgt, r, i).time = inp.lt + 1 + i
                      /\ At2(u_tgt, r, i).time \in 0..(slc.num_times - 1)
                      /\ At2(u_tgt, r, i).lt = inp.lt
                      /\ At2(u_tgt, r, i).sample = inp.sample
                 /\ \A c \in 0..(slc.spec_dim - 1) :
                      /\ At2(specs, r, c).sample = inp.sample
                      /\ slc.lead_times[At2(specs, r, c).copy + 1] = inp.lt
                      /\ At2(specs, r, c).entry = c

\* training with unroll_offset = 4 and direct_steps = 2 on 10 time steps:
\* the last lead time is 7, its input is step 3 and its targets the steps 8
\* and 9
C23_Witness ==
  /\ slc # <<>>
  /\ slc.pc = "_train_one_batch"
  /\ slc.unroll_offset = 4
  /\ slc.direct_steps = 2
  /\ slc.num_times = 10
  /\ slc.batch_size_per_device = 2
  /\ slc.lead_times = <<4, 5, 6, 7>>
  /\ At2(slc.u_inp, 7, 0) = [sample |-> 1, lt |-> 7, time |-> 3]
  /\ At2(slc.u_tgt, 7, 1) = [sample |-> 1, lt |-> 7, time |-> 9]

\* ------------------------------------------- claims on Dataset.batches

\* the batches that hold the local index i
BatchesWith(i) ==
  {k \in 1..Len(bat.yielded) :
     \E j \in 1..Len(bat.yielded[k].idx) : bat.yielded[k].idx[j] = i}

\* the local indices in the order they were yielded in
RECURSIVE YieldedOrder(_)
YieldedOrder(k) ==
  IF k = 0 THEN <<>> ELSE YieldedOrder(k - 1) \o bat.yielded[k].idx

\* C24: with 0 < batch_size <= nums[mode], with or without a key, the
\* batches that Dataset.batches yields partition the local indices of the
\* mode: each index is in one batch, once; all batches have batch_size
\* indices but a last one of nums[mode] mod batch_size indices, which is
\* there only when this is not 0; without a key the indices come in
\* increasing order; every batch is fetched from the split.
C24_BatchesPartition ==
  bat # <<>> =>
    LET n == bat.n
        bs == bat.batch_size
    IN  /\ (bat.pc = "AssertionError") => ~(0 < bs /\ bs <= n)
        /\ (bat.pc \in {"yielding", "exhausted"}) => (0 < bs /\ bs <= n)
        /\ \A k \in 1..Len(bat.yielded) :
             /\ Len(bat.yielded[k].idx)
                  = IF k <= n \div bs THEN bs ELSE n % bs
             /\ Len(bat.yielded[k].idx) >= 1
             /\ Cardinality(bat.yielded[k].global) = Len(bat.yielded[k].idx)
             /\ bat.yielded[k].global
                  \subseteq {bat.idx_mode[j] : j \in 1..n}
        /\ \A i \in 0..(n - 1) : Cardinality(BatchesWith(i)) <= 1
        /\ bat.pc = "exhausted" =>
             /\ Len(bat.yielded)
                  = n \div bs + (IF n % bs = 0 THEN 0 ELSE 1)
             /\ \A i \in 0..(n - 1) : Cardinality(BatchesWith(i)) = 1
             /\ Len(YieldedOrder(Len(bat.yielded))) = n
             /\ ~bat.shuffled =>
                  YieldedOrder(Len(bat.yielded)) = [i \in 1..n |-> i - 1]

\* three samples in batches of two under a key: a batch of two and the
\* batch of the one that is left
C24_Witness ==
  /\ bat # <<>>
  /\ bat.pc = "exhausted"
  /\ bat.n = MaxModeSamples
  /\ bat.batch_size = MaxModeSamples - 1
  /\ bat.shuffled
  /\ Len(bat.yielded) = 2
  /\ bat.yielded[1].idx[1] = MaxModeSamples - 1
  /\ Len(bat.yielded[2].idx) = 1

====
